---- MODULE Spec2Model ----
(***************************************************************************)
(* Model of the mosm data plane: the entity store (osm_store.rs), the tag  *)
(* classifier (render_feature.rs), the area predicate                      *)
(* (polygon_assembler.rs), the command history (history.rs) and the edit   *)
(* dispatcher (commands/editing.rs).                                       *)
(*                                                                         *)
(* Coordinates are degrees on an integer grid; the two R-trees are bags of *)
(* SpatialEntry records (an R-tree is a multiset of entries: insert adds a *)
(* copy, remove deletes one copy equal to its argument).                   *)
(***************************************************************************)
EXTENDS Integers, Sequences, FiniteSets, Bags, TLC

(***************************************************************************)
(* Bounds of the model.                                                    *)
(***************************************************************************)
\* number of edit calls (edits, undo, redo) issued after the load, in any order
MaxOps == 4
\* number of edits in a run of edits, then undos, then redos
MaxCmds == 3
\* zoom values are carried in tenths; the largest one tried is 27.0
MaxZoom == 270
\* edit calls made before a viewport query
MaxQueryEdits == 1
\* the longest tag list handed to parse_tags on its own
MaxTags == 3
\* the longest tag list handed to is_area_way on its own
MaxAreaTags == 2

\* number of HistoryManager calls made by the threads together
MaxHistoryCalls == 4

\* number of update_node_position calls made by the threads together
MaxMoves == 2

\* number of OsmStore methods called one after the other on a store
MaxStoreCalls == 4

(***************************************************************************)
(* Program constants.                                                      *)
(***************************************************************************)
U16Max == 65535
DEFAULT_LAYER == 0
DEFAULT == 0
HIGHWAY_MAJOR == 1
HIGHWAY_MINOR == 2
HIGHWAY_ROAD == 3
HIGHWAY_PATH == 4
HIGHWAY_STEPS == 5
RAILWAY_MAIN == 20
RAILWAY_LIGHT == 21
WATERWAY_RIVER == 30
WATERWAY_STREAM == 31
WATERWAY_CANAL == 32
BUILDING == 40
NATURAL_WOOD == 50
NATURAL_WATER == 51
NATURAL_GRASS == 52
LANDUSE == 60
BOUNDARY == 70
BRIDGE == 256
TUNNEL == 512
INTERMITTENT == 1024
CONSTRUCTION == 2048
ONEWAY == 4096
\* EARTH_HALF_CIRCUMFERENCE / 180, metres of Mercator x per degree, rounded
MercXPerDeg == 111319

None == "None"

Min(a, b) == IF a <= b THEN a ELSE b
Max(a, b) == IF a >= b THEN a ELSE b

(***************************************************************************)
(* Finite maps (DashMap): functions on the set of present keys.            *)
(***************************************************************************)
EmptyMap == [k \in {} |-> None]
MapPut(m, k, v) == [x \in (DOMAIN m) \cup {k} |-> IF x = k THEN v ELSE m[x]]
MapDel(m, k) == [x \in (DOMAIN m) \ {k} |-> m[x]]

(***************************************************************************)
(* projection.rs                                                           *)
(***************************************************************************)
\* grid latitudes and their Mercator y (metres, rounded):
\* ln(tan((90 + lat) * pi / 360)) * C / pi
MercYTable == {<<0, 0>>, <<2, 222684>>, <<4, 445640>>}

lonlat_to_mercator(lon, lat) ==
    <<lon * MercXPerDeg, (CHOOSE p \in MercYTable : p[1] = lat)[2]>>

\* lon = x * 180 / C; lat = the latitude whose Mercator y is y
mercator_to_lonlat(x, y) ==
    <<x \div MercXPerDeg, (CHOOSE p \in MercYTable : p[2] = y)[1]>>

(***************************************************************************)
(* render_feature.rs: parse_tags                                           *)
(***************************************************************************)
\* str::parse::<i8>() on the numerals the model uses: <<n>> for a numeral
\* that fits an i8 (Ok(n)), <<>> for any other text (Err)
NumeralTable ==
    {<<"-200", -200>>, <<"-6", -6>>, <<"-5", -5>>, <<"-1", -1>>, <<"0", 0>>,
     <<"1", 1>>, <<"2", 2>>, <<"5", 5>>, <<"6", 6>>, <<"7", 7>>, <<"200", 200>>}

ParseI8(value) ==
    IF \E p \in NumeralTable : p[1] = value
    THEN LET n == (CHOOSE p \in NumeralTable : p[1] = value)[2]
         IN  IF n >= -128 /\ n <= 127 THEN <<n>> ELSE <<>>
    ELSE <<>>

Clamp(n, lo, hi) == IF n < lo THEN lo ELSE IF n > hi THEN hi ELSE n

\* the scan state of parse_tags before the loop (an Option<&str> is <<>> for
\* None and <<value>> for Some(value))
ScanInit ==
    [highway |-> <<>>, railway |-> <<>>, waterway |-> <<>>, natural |-> <<>>,
     building |-> FALSE, landuse |-> FALSE, boundary |-> FALSE,
     is_bridge |-> FALSE, is_tunnel |-> FALSE, is_intermittent |-> FALSE,
     is_construction |-> FALSE, is_oneway |-> FALSE, layer |-> DEFAULT_LAYER]

\* one iteration of the loop `for (key, value) in tags`
ScanTag(st, key, value) ==
    CASE key = "highway" -> [st EXCEPT !.highway = <<value>>]
      [] key = "railway" -> [st EXCEPT !.railway = <<value>>]
      [] key = "waterway" -> [st EXCEPT !.waterway = <<value>>]
      [] key = "natural" -> [st EXCEPT !.natural = <<value>>]
      [] key = "building" -> [st EXCEPT !.building = (value # "no")]
      [] key = "landuse" -> [st EXCEPT !.landuse = TRUE]
      [] key = "boundary" -> [st EXCEPT !.boundary = (value # "no")]
      [] key = "bridge" ->
            [st EXCEPT !.is_bridge = (value \in {"yes", "viaduct", "aqueduct"})]
      [] key = "tunnel" ->
            [st EXCEPT !.is_tunnel = (value \in {"yes", "building_passage"})]
      [] key = "intermittent" -> [st EXCEPT !.is_intermittent = (value = "yes")]
      [] key = "construction" ->
            [st EXCEPT !.is_construction = (value # "" /\ value # "no")]
      [] key = "oneway" -> [st EXCEPT !.is_oneway = (value \in {"yes", "-1"})]
      [] key = "layer" ->
            [st EXCEPT !.layer =
                Clamp(IF ParseI8(value) = <<>> THEN DEFAULT_LAYER
                      ELSE ParseI8(value)[1], -5, 5)]
      [] OTHER -> st

RECURSIVE ScanTags(_, _)
ScanTags(st, tags) ==
    IF tags = <<>> THEN st
    ELSE ScanTags(ScanTag(st, Head(tags)[1], Head(tags)[2]), Tail(tags))

\* the base type chosen by the if / else-if chain
BaseTypeOf(st) ==
    IF st.waterway # <<>> THEN
        CASE st.waterway[1] = "river" -> WATERWAY_RIVER
          [] st.waterway[1] \in {"stream", "brook"} -> WATERWAY_STREAM
          [] st.waterway[1] \in {"canal", "drain", "ditch"} -> WATERWAY_CANAL
          [] OTHER -> WATERWAY_STREAM
    ELSE IF st.natural # <<>> THEN
        CASE st.natural[1] \in {"water", "coastline", "bay"} -> NATURAL_WATER
          [] st.natural[1] \in {"wood", "tree_row", "scrub"} -> NATURAL_WOOD
          [] st.natural[1] \in {"grassland", "heath"} -> NATURAL_GRASS
          [] OTHER -> DEFAULT
    ELSE IF st.railway # <<>> THEN
        CASE st.railway[1] \in {"rail", "preserved"} -> RAILWAY_MAIN
          [] st.railway[1] \in {"light_rail", "subway", "tram", "monorail"} -> RAILWAY_LIGHT
          [] OTHER -> RAILWAY_MAIN
    ELSE IF st.highway # <<>> THEN
        CASE st.highway[1] \in {"motorway", "motorway_link", "trunk", "trunk_link",
                             "primary", "primary_link"} -> HIGHWAY_MAJOR
          [] st.highway[1] \in {"secondary", "secondary_link", "tertiary",
                             "tertiary_link"} -> HIGHWAY_MINOR
          [] st.highway[1] \in {"residential", "unclassified", "service",
                             "living_street", "road"} -> HIGHWAY_ROAD
          [] st.highway[1] \in {"footway", "path", "pedestrian", "cycleway",
                             "bridleway", "track"} -> HIGHWAY_PATH
          [] st.highway[1] = "steps" -> HIGHWAY_STEPS
          [] OTHER -> HIGHWAY_ROAD
    ELSE IF st.building THEN BUILDING
    ELSE IF st.landuse THEN LANDUSE
    ELSE IF st.boundary THEN BOUNDARY
    ELSE DEFAULT

\* feature |= flag for each flag seen; the flags are distinct bits above the
\* base type, so the bitwise or is the sum
FlagsOf(st) ==
    (IF st.is_bridge THEN BRIDGE ELSE 0)
    + (IF st.is_tunnel THEN TUNNEL ELSE 0)
    + (IF st.is_intermittent THEN INTERMITTENT ELSE 0)
    + (IF st.is_construction THEN CONSTRUCTION ELSE 0)
    + (IF st.is_oneway THEN ONEWAY ELSE 0)

\* a classifier that looks at the first tag alone
parse_tags_FirstTagOnly(tags) ==
    IF tags = <<>> THEN [feature |-> DEFAULT, layer |-> DEFAULT_LAYER]
    ELSE LET st == ScanTags(ScanInit, <<Head(tags)>>)
         IN  [feature |-> BaseTypeOf(st) + FlagsOf(st), layer |-> st.layer]

parse_tags(tags) ==
    IF tags = <<>> THEN [feature |-> DEFAULT, layer |-> DEFAULT_LAYER]
    ELSE LET st == ScanTags(ScanInit, tags)
         IN  [feature |-> BaseTypeOf(st) + FlagsOf(st), layer |-> st.layer]

(***************************************************************************)
(* polygon_assembler.rs: is_area_way                                       *)
(***************************************************************************)
\* the loop over the tags: the first tag that decides returns
RECURSIVE AreaByTags(_)
AreaByTags(tags) ==
    IF tags = <<>> THEN FALSE
    ELSE LET key == Head(tags)[1]
             value == Head(tags)[2]
         IN  CASE key = "area" -> (value = "yes")
               [] key \in {"building", "landuse", "leisure", "amenity", "shop",
                           "tourism", "man_made"} ->
                     IF value # "no" THEN TRUE ELSE AreaByTags(Tail(tags))
               [] key = "natural" ->
                     IF value \notin {"no", "coastline", "tree_row"}
                     THEN TRUE ELSE AreaByTags(Tail(tags))
               [] key = "waterway" ->
                     IF value \in {"riverbank", "dock", "boatyard"}
                     THEN TRUE ELSE AreaByTags(Tail(tags))
               [] OTHER -> AreaByTags(Tail(tags))

is_area_way(tags, node_refs) ==
    IF Len(node_refs) < 4 THEN FALSE
    ELSE IF node_refs[1] # node_refs[Len(node_refs)] THEN FALSE
    ELSE AreaByTags(tags)

(***************************************************************************)
(* osm_store.rs                                                            *)
(*                                                                         *)
(* A store value is a record of the fields of OsmStore; the operators      *)
(* below are its methods, mapping a store to the store after the call.     *)
(* Option values are sequences: <<>> is None, <<v>> is Some(v).            *)
(***************************************************************************)
OsmNode(id, lon, lat, tags) == [id |-> id, lon |-> lon, lat |-> lat, tags |-> tags]

OsmWay(id, node_refs, tags, render_feature, layer, is_area) ==
    [id |-> id, node_refs |-> node_refs, tags |-> tags,
     render_feature |-> render_feature, layer |-> layer, is_area |-> is_area]

SpatialEntry(id, min_lon, min_lat, max_lon, max_lat) ==
    [id |-> id, min_lon |-> min_lon, min_lat |-> min_lat,
     max_lon |-> max_lon, max_lat |-> max_lat]

PointEntry(id, lon, lat) == SpatialEntry(id, lon, lat, lon, lat)

\* OsmStore::new
NewStore ==
    [nodes |-> EmptyMap, ways |-> EmptyMap, relations |-> EmptyMap,
     node_ref_count |-> EmptyMap, node_index |-> EmptyBag,
     way_index |-> EmptyBag, index_dirty |-> FALSE, next_local_id |-> -1]

\* RTree::insert
RTreeInsert(index, entry) == index (+) SetToBag({entry})

\* RTree::remove: deletes one element equal to the argument, if there is one
RTreeRemove(index, entry) ==
    IF BagIn(entry, index) THEN index (-) SetToBag({entry}) ELSE index

\* collect the entries with e.id == id, then remove each of them
RTreeRemoveId(index, id) ==
    [e \in {x \in DOMAIN index : x.id # id} |-> index[e]]

SetMin(S) == CHOOSE x \in S : \A y \in S : x <= y
SetMax(S) == CHOOSE x \in S : \A y \in S : x >= y

SeqRange(q) == {q[i] : i \in 1..Len(q)}

\* u16::saturating_add / saturating_sub
\* u16 wrapping_add
SaturatingAdd_Wraps(c, k) == (c + k) % 65536

\* u16 saturating_add, saturating_sub
SaturatingAdd(c, k) == Min(c + k, U16Max)
SaturatingSub(c, k) == Max(c - k, 0)

\* node_ref_count.entry(id).and_modify(|c| *c = c.saturating_add(k)).or_insert(k)
RefCountAdd(rc, id, k) ==
    IF id \in DOMAIN rc THEN [rc EXCEPT ![id] = SaturatingAdd(rc[id], k)]
    ELSE MapPut(rc, id, k)

\* node_ref_count.entry(id).and_modify(|c| *c = c.saturating_sub(k))
RefCountSub(rc, id, k) ==
    IF id \in DOMAIN rc THEN [rc EXCEPT ![id] = SaturatingSub(rc[id], k)]
    ELSE rc

\* for &node_id in &way.node_refs { ... saturating_add(1) ... }
RECURSIVE IncRefs(_, _)
IncRefs(rc, refs) ==
    IF refs = <<>> THEN rc ELSE IncRefs(RefCountAdd(rc, Head(refs), 1), Tail(refs))

\* for &node_id in &way.node_refs { ... saturating_sub(1) ... }
RECURSIVE DecRefs(_, _)
DecRefs(rc, refs) ==
    IF refs = <<>> THEN rc ELSE DecRefs(RefCountSub(rc, Head(refs), 1), Tail(refs))

\* a counter that is read but not decremented
generate_local_id_NoDecrement(s) ==
    [id |-> s.next_local_id, store |-> s]

\* next_local_id.fetch_sub(1): one atomic read-modify-write
generate_local_id(s) ==
    [id |-> s.next_local_id, store |-> [s EXCEPT !.next_local_id = @ - 1]]

insert_node(s, node) ==
    [s EXCEPT !.nodes = MapPut(@, node.id, node), !.index_dirty = TRUE]

insert_way(s, way) ==
    [s EXCEPT !.node_ref_count = IncRefs(@, way.node_refs),
              !.ways = MapPut(@, way.id, way),
              !.index_dirty = TRUE]

\* store.relations.insert(osm_relation.id, osm_relation)
insert_relation(s, rel) == [s EXCEPT !.relations = MapPut(@, rel.id, rel)]

compute_way_bbox(s, way) ==
    LET present == SeqRange(way.node_refs) \cap DOMAIN s.nodes
        lons == {s.nodes[n].lon : n \in present}
        lats == {s.nodes[n].lat : n \in present}
    IN  IF present = {} THEN <<>>
        ELSE <<SpatialEntry(way.id, SetMin(lons), SetMin(lats),
                            SetMax(lons), SetMax(lats))>>

rebuild_indices_Appends(s) ==
    LET node_entries ==
            {PointEntry(s.nodes[n].id, s.nodes[n].lon, s.nodes[n].lat) :
                n \in DOMAIN s.nodes}
        way_entries ==
            {compute_way_bbox(s, s.ways[w])[1] :
                w \in {x \in DOMAIN s.ways : compute_way_bbox(s, s.ways[x]) # <<>>}}
    IN  [s EXCEPT !.node_index = @ (+) SetToBag(node_entries),
                  !.way_index = @ (+) SetToBag(way_entries),
                  !.index_dirty = FALSE]

rebuild_indices(s) ==
    LET node_entries ==
            {PointEntry(s.nodes[n].id, s.nodes[n].lon, s.nodes[n].lat) :
                n \in DOMAIN s.nodes}
        way_entries ==
            {compute_way_bbox(s, s.ways[w])[1] :
                w \in {x \in DOMAIN s.ways : compute_way_bbox(s, s.ways[x]) # <<>>}}
    IN  [s EXCEPT !.node_index = SetToBag(node_entries),
                  !.way_index = SetToBag(way_entries),
                  !.index_dirty = FALSE]

stats(s) ==
    [node_count |-> Cardinality(DOMAIN s.nodes),
     way_count |-> Cardinality(DOMAIN s.ways),
     relation_count |-> Cardinality(DOMAIN s.relations)]

get_bounds(s) ==
    IF DOMAIN s.nodes = {} THEN <<>>
    ELSE LET lons == {s.nodes[n].lon : n \in DOMAIN s.nodes}
             lats == {s.nodes[n].lat : n \in DOMAIN s.nodes}
         IN  <<[min_lon |-> SetMin(lons), min_lat |-> SetMin(lats),
                max_lon |-> SetMax(lons), max_lat |-> SetMax(lats),
                center_lon |-> (SetMin(lons) + SetMax(lons)) \div 2,
                center_lat |-> (SetMin(lats) + SetMax(lats)) \div 2]>>

\* the set of ways whose node_refs contain node_id (DashMap iteration has no
\* fixed order: callers take the ids in any order)
find_ways_referencing_node(s, node_id) ==
    {w \in DOMAIN s.ways : node_id \in SeqRange(s.ways[w].node_refs)}

\* step 3 of update_node_position, for one affected way: drop its entries by
\* id, insert the recomputed bbox
RefreshWayEntry(s, index, way_id) ==
    IF way_id \in DOMAIN s.ways
    THEN LET bbox == compute_way_bbox(s, s.ways[way_id])
             cleared == RTreeRemoveId(index, way_id)
         IN  IF bbox # <<>> THEN RTreeInsert(cleared, bbox[1]) ELSE cleared
    ELSE index

RECURSIVE RefreshWayEntries(_, _, _)
RefreshWayEntries(s, index, way_ids) ==
    IF way_ids = {} THEN index
    ELSE LET w == CHOOSE x \in way_ids : TRUE
         IN  RefreshWayEntries(s, RefreshWayEntry(s, index, w), way_ids \ {w})

\* update_node_position that inserts the new point entry and leaves the old one
update_node_position_KeepsOldEntry(s, node_id, new_lon, new_lat) ==
    IF node_id \notin DOMAIN s.nodes THEN [ok |-> FALSE, store |-> s]
    ELSE LET new_entry == PointEntry(node_id, new_lon, new_lat)
             s1 == [s EXCEPT !.nodes[node_id].lon = new_lon,
                             !.nodes[node_id].lat = new_lat]
             s2 == [s1 EXCEPT !.node_index = RTreeInsert(@, new_entry)]
             affected_ways == find_ways_referencing_node(s2, node_id)
         IN  [ok |-> TRUE,
              store |-> [s2 EXCEPT !.way_index =
                                     RefreshWayEntries(s2, @, affected_ways)]]

update_node_position(s, node_id, new_lon, new_lat) ==
    IF node_id \notin DOMAIN s.nodes THEN [ok |-> FALSE, store |-> s]
    ELSE LET old_entry == PointEntry(node_id, s.nodes[node_id].lon, s.nodes[node_id].lat)
             new_entry == PointEntry(node_id, new_lon, new_lat)
             s1 == [s EXCEPT !.nodes[node_id].lon = new_lon,
                             !.nodes[node_id].lat = new_lat]
             s2 == [s1 EXCEPT !.node_index =
                                RTreeInsert(RTreeRemove(@, old_entry), new_entry)]
             affected_ways == find_ways_referencing_node(s2, node_id)
         IN  [ok |-> TRUE,
              store |-> [s2 EXCEPT !.way_index =
                                     RefreshWayEntries(s2, @, affected_ways)]]

add_node_with_index(s, node) ==
    [s EXCEPT !.nodes = MapPut(@, node.id, node),
              !.node_index = RTreeInsert(@, PointEntry(node.id, node.lon, node.lat))]

remove_node_with_index(s, node_id) ==
    IF node_id \in DOMAIN s.nodes
    THEN [s EXCEPT !.nodes = MapDel(@, node_id),
                   !.node_index =
                       RTreeRemove(@, PointEntry(node_id, s.nodes[node_id].lon,
                                                 s.nodes[node_id].lat))]
    ELSE s

add_way_with_index(s, way) ==
    LET s1 == [s EXCEPT !.node_ref_count = IncRefs(@, way.node_refs)]
        bbox == compute_way_bbox(s1, way)
        s2 == IF bbox # <<>>
              THEN [s1 EXCEPT !.way_index = RTreeInsert(@, bbox[1])]
              ELSE s1
    IN  [s2 EXCEPT !.ways = MapPut(@, way.id, way)]

remove_way_with_index(s, way_id) ==
    IF way_id \in DOMAIN s.ways
    THEN [s EXCEPT !.ways = MapDel(@, way_id),
                   !.node_ref_count = DecRefs(@, s.ways[way_id].node_refs),
                   !.way_index = RTreeRemoveId(@, way_id)]
    ELSE s

\* update_way_rtree that inserts the new bbox without removing the old entries
update_way_rtree_KeepsOldEntries(s, way_id) ==
    LET bbox == IF way_id \in DOMAIN s.ways
                THEN compute_way_bbox(s, s.ways[way_id]) ELSE <<>>
    IN  [s EXCEPT !.way_index =
                    IF bbox # <<>> THEN RTreeInsert(@, bbox[1]) ELSE @]

update_way_rtree(s, way_id) ==
    LET cleared == RTreeRemoveId(s.way_index, way_id)
        bbox == IF way_id \in DOMAIN s.ways
                THEN compute_way_bbox(s, s.ways[way_id]) ELSE <<>>
    IN  [s EXCEPT !.way_index =
                    IF bbox # <<>> THEN RTreeInsert(cleared, bbox[1]) ELSE cleared]

\* the 0-based positions of node_id in refs, ascending
RECURSIVE IndicesFrom(_, _, _)
IndicesFrom(refs, node_id, i) ==
    IF i > Len(refs) THEN <<>>
    ELSE (IF refs[i] = node_id THEN <<i - 1>> ELSE <<>>)
         \o IndicesFrom(refs, node_id, i + 1)

IndicesOf(refs, node_id) == IndicesFrom(refs, node_id, 1)

\* a removal of the first occurrence alone
RemoveAll_FirstOnly(refs, node_id) ==
    LET at == IndicesOf(refs, node_id)
    IN  IF at = <<>> THEN refs
        ELSE SubSeq(refs, 1, at[1]) \o SubSeq(refs, at[1] + 2, Len(refs))

\* node_refs.remove(idx) for every recorded index, back to front
RemoveAll(refs, node_id) ==
    LET Keep(x) == x # node_id IN SelectSeq(refs, Keep)

\* `len() as u16`
AsU16(n) == n % 65536

remove_node_from_way(s, way_id, node_id) ==
    LET removed_indices ==
            IF way_id \in DOMAIN s.ways
            THEN IndicesOf(s.ways[way_id].node_refs, node_id) ELSE <<>>
        s1 == IF way_id \in DOMAIN s.ways
              THEN [s EXCEPT !.ways[way_id].node_refs = RemoveAll(@, node_id)]
              ELSE s
        s2 == IF removed_indices # <<>>
              THEN update_way_rtree(
                       [s1 EXCEPT !.node_ref_count =
                                    RefCountSub(@, node_id, AsU16(Len(removed_indices)))],
                       way_id)
              ELSE s1
    IN  [indices |-> removed_indices, store |-> s2]

\* Vec::insert(pos, x) with a 0-based pos <= len
VecInsert(refs, pos, x) ==
    SubSeq(refs, 1, pos) \o <<x>> \o SubSeq(refs, pos + 1, Len(refs))

\* the loop `for (offset, &idx) in indices.iter().enumerate()`, from offset on
RECURSIVE InsertAt(_, _, _, _)
InsertAt(refs, node_id, indices, offset) ==
    IF indices = <<>> THEN refs
    ELSE LET insert_pos == Head(indices) + offset
             next == IF insert_pos <= Len(refs)
                     THEN VecInsert(refs, insert_pos, node_id) ELSE refs
         IN  InsertAt(next, node_id, Tail(indices), offset + 1)

insert_node_to_way(s, way_id, node_id, indices) ==
    LET s1 == IF way_id \in DOMAIN s.ways
              THEN [s EXCEPT !.ways[way_id].node_refs =
                               InsertAt(@, node_id, indices, 0)]
              ELSE s
    IN  IF indices # <<>>
        THEN update_way_rtree(
                 [s1 EXCEPT !.node_ref_count =
                              RefCountAdd(@, node_id, AsU16(Len(indices)))],
                 way_id)
        ELSE s1

is_way_valid(s, way_id) ==
    way_id \in DOMAIN s.ways /\ Len(s.ways[way_id].node_refs) >= 2

(***************************************************************************)
(* history.rs: the commands                                                *)
(***************************************************************************)
CommandResult_success(needs_redraw) ==
    [success |-> TRUE, needs_redraw |-> needs_redraw, message |-> None]

CommandResult_failure(message) ==
    [success |-> FALSE, needs_redraw |-> FALSE, message |-> message]

UpdateWayTagsCommand(way_id, old_tags, new_tags, old_render_feature, new_render_feature, old_layer, new_layer, old_is_area, new_is_area) ==
    [kind |-> "UpdateWayTags", way_id |-> way_id,
     old_tags |-> old_tags, new_tags |-> new_tags,
     old_render_feature |-> old_render_feature,
     new_render_feature |-> new_render_feature,
     old_layer |-> old_layer, new_layer |-> new_layer,
     old_is_area |-> old_is_area, new_is_area |-> new_is_area]

UpdateNodeTagsCommand(node_id, old_tags, new_tags) ==
    [kind |-> "UpdateNodeTags", node_id |-> node_id,
     old_tags |-> old_tags, new_tags |-> new_tags]

MoveNodeCommand(node_id, old_lon, old_lat, new_lon, new_lat) ==
    [kind |-> "MoveNode", node_id |-> node_id, old_lon |-> old_lon,
     old_lat |-> old_lat, new_lon |-> new_lon, new_lat |-> new_lat]

AddNodeCommand(node) == [kind |-> "AddNode", node |-> node]

DeleteWayCommand(way) == [kind |-> "DeleteWay", way |-> way]

DeleteNodeCommand(node, way_references, cascaded_ways) ==
    [kind |-> "DeleteNode", node |-> node, way_references |-> way_references,
     cascaded_ways |-> cascaded_ways]

UpdateWayTags_apply(c, s) ==
    IF c.way_id \in DOMAIN s.ways
    THEN [result |-> CommandResult_success(c.old_render_feature # c.new_render_feature),
          store |-> [s EXCEPT !.ways[c.way_id].tags = c.new_tags,
                              !.ways[c.way_id].render_feature = c.new_render_feature,
                              !.ways[c.way_id].layer = c.new_layer,
                              !.ways[c.way_id].is_area = c.new_is_area]]
    ELSE [result |-> CommandResult_failure("Way not found"), store |-> s]

\* an undo that never finds the way
UpdateWayTags_undo_WayNotFound(c, s) ==
    [result |-> CommandResult_failure("Way not found"), store |-> s]

UpdateWayTags_undo(c, s) ==
    IF c.way_id \in DOMAIN s.ways
    THEN [result |-> CommandResult_success(c.old_render_feature # c.new_render_feature),
          store |-> [s EXCEPT !.ways[c.way_id].tags = c.old_tags,
                              !.ways[c.way_id].render_feature = c.old_render_feature,
                              !.ways[c.way_id].layer = c.old_layer,
                              !.ways[c.way_id].is_area = c.old_is_area]]
    ELSE [result |-> CommandResult_failure("Way not found"), store |-> s]

UpdateNodeTags_apply(c, s) ==
    IF c.node_id \in DOMAIN s.nodes
    THEN [result |-> CommandResult_success(FALSE),
          store |-> [s EXCEPT !.nodes[c.node_id].tags = c.new_tags]]
    ELSE [result |-> CommandResult_failure("Node not found"), store |-> s]

UpdateNodeTags_undo(c, s) ==
    IF c.node_id \in DOMAIN s.nodes
    THEN [result |-> CommandResult_success(FALSE),
          store |-> [s EXCEPT !.nodes[c.node_id].tags = c.old_tags]]
    ELSE [result |-> CommandResult_failure("Node not found"), store |-> s]

MoveNode_apply(c, s) ==
    LET r == update_node_position(s, c.node_id, c.new_lon, c.new_lat)
    IN  IF r.ok THEN [result |-> CommandResult_success(TRUE), store |-> r.store]
        ELSE [result |-> CommandResult_failure("Node not found"), store |-> r.store]

\* an inverse that moves to the new coordinates again
MoveNode_undo_UsesNew(c, s) ==
    LET r == update_node_position(s, c.node_id, c.new_lon, c.new_lat)
    IN  IF r.ok THEN [result |-> CommandResult_success(TRUE), store |-> r.store]
        ELSE [result |-> CommandResult_failure("Node not found"), store |-> r.store]

MoveNode_undo(c, s) ==
    LET r == update_node_position(s, c.node_id, c.old_lon, c.old_lat)
    IN  IF r.ok THEN [result |-> CommandResult_success(TRUE), store |-> r.store]
        ELSE [result |-> CommandResult_failure("Node not found"), store |-> r.store]

AddNode_apply(c, s) ==
    [result |-> CommandResult_success(TRUE), store |-> add_node_with_index(s, c.node)]

AddNode_undo(c, s) ==
    [result |-> CommandResult_success(TRUE),
     store |-> remove_node_with_index(s, c.node.id)]

DeleteWay_apply(c, s) ==
    [result |-> CommandResult_success(TRUE),
     store |-> remove_way_with_index(s, c.way.id)]

DeleteWay_undo(c, s) ==
    [result |-> CommandResult_success(TRUE), store |-> add_way_with_index(s, c.way)]

\* for (way_id, _indices) in &self.way_references { remove_node_from_way }
RECURSIVE RemoveFromWays(_, _, _)
RemoveFromWays(s, way_references, node_id) ==
    IF way_references = <<>> THEN s
    ELSE RemoveFromWays(remove_node_from_way(s, Head(way_references)[1], node_id).store,
                        Tail(way_references), node_id)

\* for way in &self.cascaded_ways { remove_way_with_index }
RECURSIVE RemoveWays(_, _)
RemoveWays(s, cascaded_ways) ==
    IF cascaded_ways = <<>> THEN s
    ELSE RemoveWays(remove_way_with_index(s, Head(cascaded_ways).id), Tail(cascaded_ways))

\* for way in &self.cascaded_ways { add_way_with_index }
RECURSIVE AddWays(_, _)
AddWays(s, cascaded_ways) ==
    IF cascaded_ways = <<>> THEN s
    ELSE AddWays(add_way_with_index(s, Head(cascaded_ways)), Tail(cascaded_ways))

\* for (way_id, indices) in &self.way_references { insert_node_to_way }
RECURSIVE InsertToWays(_, _, _)
InsertToWays(s, way_references, node_id) ==
    IF way_references = <<>> THEN s
    ELSE InsertToWays(insert_node_to_way(s, Head(way_references)[1], node_id,
                                         Head(way_references)[2]),
                      Tail(way_references), node_id)

\* DeleteNode apply that leaves the cascaded ways in the store
DeleteNode_apply_NoCascade(c, s) ==
    LET s1 == RemoveFromWays(s, c.way_references, c.node.id)
    IN  [result |-> CommandResult_success(TRUE),
         store |-> remove_node_with_index(s1, c.node.id)]

DeleteNode_apply(c, s) ==
    LET s1 == RemoveFromWays(s, c.way_references, c.node.id)
        s2 == RemoveWays(s1, c.cascaded_ways)
    IN  [result |-> CommandResult_success(TRUE),
         store |-> remove_node_with_index(s2, c.node.id)]

DeleteNode_undo(c, s) ==
    LET s1 == add_node_with_index(s, c.node)
        s2 == AddWays(s1, c.cascaded_ways)
    IN  [result |-> CommandResult_success(TRUE),
         store |-> InsertToWays(s2, c.way_references, c.node.id)]

\* dyn Command: apply
Apply(c, s) ==
    CASE c.kind = "UpdateWayTags" -> UpdateWayTags_apply(c, s)
      [] c.kind = "UpdateNodeTags" -> UpdateNodeTags_apply(c, s)
      [] c.kind = "MoveNode" -> MoveNode_apply(c, s)
      [] c.kind = "AddNode" -> AddNode_apply(c, s)
      [] c.kind = "DeleteWay" -> DeleteWay_apply(c, s)
      [] c.kind = "DeleteNode" -> DeleteNode_apply(c, s)

\* dyn Command: undo
Undo(c, s) ==
    CASE c.kind = "UpdateWayTags" -> UpdateWayTags_undo(c, s)
      [] c.kind = "UpdateNodeTags" -> UpdateNodeTags_undo(c, s)
      [] c.kind = "MoveNode" -> MoveNode_undo(c, s)
      [] c.kind = "AddNode" -> AddNode_undo(c, s)
      [] c.kind = "DeleteWay" -> DeleteWay_undo(c, s)
      [] c.kind = "DeleteNode" -> DeleteNode_undo(c, s)

(***************************************************************************)
(* history.rs: HistoryManager.  A history value is the pair of stacks; the *)
(* top of a stack is the end of the sequence (Vec::push / Vec::pop).       *)
(***************************************************************************)
HistoryManager_new == [undo_stack |-> <<>>, redo_stack |-> <<>>]

Pop(stack) == SubSeq(stack, 1, Len(stack) - 1)
Top(stack) == stack[Len(stack)]

\* execute that does not clear the redo stack
HistoryManager_execute_KeepsRedo(h, command, s) ==
    LET r == Apply(command, s)
    IN  IF r.result.success
        THEN [result |-> r.result, store |-> r.store,
              history |-> [h EXCEPT !.undo_stack = Append(@, command)]]
        ELSE [result |-> r.result, store |-> r.store, history |-> h]

HistoryManager_execute(h, command, s) ==
    LET r == Apply(command, s)
    IN  IF r.result.success
        THEN [result |-> r.result, store |-> r.store,
              history |-> [undo_stack |-> Append(h.undo_stack, command),
                           redo_stack |-> <<>>]]
        ELSE [result |-> r.result, store |-> r.store, history |-> h]

\* undo that drops the command instead of pushing it on the redo stack
HistoryManager_undo_DropsCommand(h, s) ==
    IF h.undo_stack # <<>>
    THEN LET cmd == Top(h.undo_stack)
             r == Undo(cmd, s)
         IN  [result |-> r.result, store |-> r.store,
              history |-> [h EXCEPT !.undo_stack = Pop(@)]]
    ELSE [result |-> CommandResult_failure("Nothing to undo"), store |-> s,
          history |-> h]

HistoryManager_undo(h, s) ==
    IF h.undo_stack # <<>>
    THEN LET cmd == Top(h.undo_stack)
             r == Undo(cmd, s)
             popped == [h EXCEPT !.undo_stack = Pop(@)]
         IN  [result |-> r.result, store |-> r.store,
              history |-> IF r.result.success
                          THEN [popped EXCEPT !.redo_stack = Append(@, cmd)]
                          ELSE popped]
    ELSE [result |-> CommandResult_failure("Nothing to undo"), store |-> s,
          history |-> h]

\* redo that runs the command's undo instead of its apply
HistoryManager_redo_RunsUndo(h, s) ==
    IF h.redo_stack # <<>>
    THEN LET cmd == Top(h.redo_stack)
             r == Undo(cmd, s)
             popped == [h EXCEPT !.redo_stack = Pop(@)]
         IN  [result |-> r.result, store |-> r.store,
              history |-> IF r.result.success
                          THEN [popped EXCEPT !.undo_stack = Append(@, cmd)]
                          ELSE popped]
    ELSE [result |-> CommandResult_failure("Nothing to redo"), store |-> s,
          history |-> h]

HistoryManager_redo(h, s) ==
    IF h.redo_stack # <<>>
    THEN LET cmd == Top(h.redo_stack)
             r == Apply(cmd, s)
             popped == [h EXCEPT !.redo_stack = Pop(@)]
         IN  [result |-> r.result, store |-> r.store,
              history |-> IF r.result.success
                          THEN [popped EXCEPT !.undo_stack = Append(@, cmd)]
                          ELSE popped]
    ELSE [result |-> CommandResult_failure("Nothing to redo"), store |-> s,
          history |-> h]

undo_count(h) == Len(h.undo_stack)
redo_count(h) == Len(h.redo_stack)

(***************************************************************************)
(* commands/editing.rs: the edit dispatcher.  Each operator maps the store *)
(* and the history to the store and history after the call and the value   *)
(* returned to the caller (with the command handed to                      *)
(* HistoryManager::execute, if any, in cmd).                               *)
(***************************************************************************)
Reply(op, arg) ==
    [op |-> op, arg |-> arg, success |-> FALSE, message |-> None,
     needs_redraw |-> FALSE, counts |-> <<>>, cascaded_way_ids |-> <<>>,
     node_id |-> <<>>, parsed |-> <<>>, cmd |-> <<>>]

Outcome(s, h, reply) == [store |-> s, history |-> h, reply |-> reply]

update_way_tags(s, h, way_id, new_tags) ==
    IF way_id \notin DOMAIN s.ways
    THEN Outcome(s, h, [Reply("update_way_tags", way_id) EXCEPT
                            !.parsed = <<0, 0, FALSE>>])
    ELSE LET way == s.ways[way_id]
             new_parsed == parse_tags(new_tags)
             new_is_area == is_area_way(new_tags, way.node_refs)
             command == UpdateWayTagsCommand(way_id, way.tags, new_tags,
                            way.render_feature, new_parsed.feature,
                            way.layer, new_parsed.layer,
                            way.is_area, new_is_area)
             r == HistoryManager_execute(h, command, s)
         IN  Outcome(r.store, r.history,
                     [Reply("update_way_tags", way_id) EXCEPT
                         !.success = r.result.success,
                         !.parsed = <<new_parsed.feature, new_parsed.layer, new_is_area>>,
                         !.cmd = <<command>>])

update_node_tags(s, h, node_id, new_tags) ==
    IF node_id \notin DOMAIN s.nodes
    THEN Outcome(s, h, [Reply("update_node_tags", node_id) EXCEPT
                            !.parsed = <<0, 0, FALSE>>])
    ELSE LET command == UpdateNodeTagsCommand(node_id, s.nodes[node_id].tags, new_tags)
             r == HistoryManager_execute(h, command, s)
         IN  Outcome(r.store, r.history,
                     [Reply("update_node_tags", node_id) EXCEPT
                         !.success = r.result.success,
                         !.parsed = <<0, 0, FALSE>>,
                         !.cmd = <<command>>])

undo(s, h) ==
    LET r == HistoryManager_undo(h, s)
    IN  Outcome(r.store, r.history,
                [Reply("undo", 0) EXCEPT
                    !.success = r.result.success,
                    !.needs_redraw = r.result.needs_redraw,
                    !.message = r.result.message,
                    !.counts = <<undo_count(r.history), redo_count(r.history)>>])

redo(s, h) ==
    LET r == HistoryManager_redo(h, s)
    IN  Outcome(r.store, r.history,
                [Reply("redo", 0) EXCEPT
                    !.success = r.result.success,
                    !.needs_redraw = r.result.needs_redraw,
                    !.message = r.result.message,
                    !.counts = <<undo_count(r.history), redo_count(r.history)>>])

move_node(s, h, node_id, new_merc_x, new_merc_y) ==
    IF node_id \notin DOMAIN s.nodes
    THEN Outcome(s, h, [Reply("move_node", node_id) EXCEPT
                            !.message = "Node not found"])
    ELSE LET new_lonlat == mercator_to_lonlat(new_merc_x, new_merc_y)
             command == MoveNodeCommand(node_id, s.nodes[node_id].lon,
                                        s.nodes[node_id].lat,
                                        new_lonlat[1], new_lonlat[2])
             r == HistoryManager_execute(h, command, s)
         IN  Outcome(r.store, r.history,
                     [Reply("move_node", node_id) EXCEPT
                         !.success = r.result.success,
                         !.message = r.result.message,
                         !.cmd = <<command>>])

\* add_node from the point where generate_local_id has returned node_id
add_node_with_id(s, h, merc_x, merc_y, node_id) ==
    LET lonlat == mercator_to_lonlat(merc_x, merc_y)
        command == AddNodeCommand(OsmNode(node_id, lonlat[1], lonlat[2], <<>>))
        r == HistoryManager_execute(h, command, s)
    IN  Outcome(r.store, r.history,
                [Reply("add_node", 0) EXCEPT
                    !.success = r.result.success,
                    !.node_id = <<node_id>>,
                    !.message = r.result.message,
                    !.cmd = <<command>>])

add_node(s, h, merc_x, merc_y) ==
    LET g == generate_local_id(s)
    IN  add_node_with_id(g.store, h, merc_x, merc_y, g.id)

\* a dispatcher that answers success for a way it did not find
delete_way_MissingSucceeds(s, h, way_id) ==
    IF way_id \notin DOMAIN s.ways
    THEN Outcome(s, h, [Reply("delete_way", way_id) EXCEPT !.success = TRUE])
    ELSE LET command == DeleteWayCommand(s.ways[way_id])
             r == HistoryManager_execute(h, command, s)
         IN  Outcome(r.store, r.history,
                     [Reply("delete_way", way_id) EXCEPT
                         !.success = r.result.success,
                         !.message = r.result.message,
                         !.cmd = <<command>>])

delete_way(s, h, way_id) ==
    IF way_id \notin DOMAIN s.ways
    THEN Outcome(s, h, [Reply("delete_way", way_id) EXCEPT
                            !.message = "Way not found"])
    ELSE LET command == DeleteWayCommand(s.ways[way_id])
             r == HistoryManager_execute(h, command, s)
         IN  Outcome(r.store, r.history,
                     [Reply("delete_way", way_id) EXCEPT
                         !.success = r.result.success,
                         !.message = r.result.message,
                         !.cmd = <<command>>])

\* the loop `for way_id in referencing_ways` of delete_node: the pair of
\* way_references and cascaded_ways collected from the ways in `order`
RECURSIVE CollectReferences(_, _, _)
CollectReferences(s, node_id, order) ==
    IF order = <<>> THEN [way_references |-> <<>>, cascaded_ways |-> <<>>]
    ELSE LET way_id == Head(order)
             rest == CollectReferences(s, node_id, Tail(order))
         IN  IF way_id \in DOMAIN s.ways
             THEN LET way == s.ways[way_id]
                      indices == IndicesOf(way.node_refs, node_id)
                      remaining_count == Len(way.node_refs) - Len(indices)
                  IN  [way_references |-> <<<<way_id, indices>>>> \o rest.way_references,
                       cascaded_ways |->
                           (IF remaining_count < 2 THEN <<way>> ELSE <<>>)
                           \o rest.cascaded_ways]
             ELSE rest

\* the orders in which an iteration can yield the members of S
Orderings(S) ==
    {q \in [1..Cardinality(S) -> S] : \A x \in S : \E i \in 1..Cardinality(S) : q[i] = x}

RECURSIVE WayIdsOf(_)
WayIdsOf(ws) == IF ws = <<>> THEN <<>> ELSE <<Head(ws).id>> \o WayIdsOf(Tail(ws))

\* referencing_ways is find_ways_referencing_node(node_id) in the order the
\* map iteration produced it
delete_node(s, h, node_id, referencing_ways) ==
    IF node_id \notin DOMAIN s.nodes
    THEN Outcome(s, h, [Reply("delete_node", node_id) EXCEPT
                            !.message = "Node not found"])
    ELSE LET refs == CollectReferences(s, node_id, referencing_ways)
             command == DeleteNodeCommand(s.nodes[node_id], refs.way_references,
                                          refs.cascaded_ways)
             r == HistoryManager_execute(h, command, s)
         IN  Outcome(r.store, r.history,
                     [Reply("delete_node", node_id) EXCEPT
                         !.success = r.result.success,
                         !.message = r.result.message,
                         !.cascaded_way_ids = WayIdsOf(refs.cascaded_ways),
                         !.cmd = <<command>>])

(***************************************************************************)
(* Inputs.                                                                 *)
(***************************************************************************)
Element(kind, id, lon, lat, node_refs, members, tags) ==
    [kind |-> kind, id |-> id, lon |-> lon, lat |-> lat,
     node_refs |-> node_refs, members |-> members, tags |-> tags]

NodeElement(id, lon, lat) == Element("node", id, lon, lat, <<>>, <<>>, <<>>)
WayElement(id, node_refs, tags) == Element("way", id, 0, 0, node_refs, <<>>, tags)
RelationElement(id, members, tags) == Element("relation", id, 0, 0, <<>>, members, tags)

RelationMember(member_type, ref_id, role) ==
    [member_type |-> member_type, ref_id |-> ref_id, role |-> role]

\* the PBF files loaded: a two-node way; a closed building sharing nodes with
\* a road, inside a multipolygon relation; a way with a repeated node and a
\* way referencing a node that is not in the file; a file without elements
FileRoad ==
    {NodeElement(5, 0, 0), NodeElement(6, 2, 2),
     WayElement(10, <<5, 6>>, <<<<"highway", "primary">>>>)}

FileArea ==
    {NodeElement(5, 0, 0), NodeElement(6, 2, 0), NodeElement(7, 2, 4),
     WayElement(10, <<5, 6, 7, 5>>, <<<<"building", "yes">>>>),
     WayElement(11, <<7, 6>>, <<<<"highway", "primary">>, <<"bridge", "yes">>>>),
     RelationElement(20, <<RelationMember("Way", 10, "outer")>>,
                     <<<<"type", "multipolygon">>>>)}

FileGaps ==
    {NodeElement(5, 0, 2), NodeElement(6, 4, 0),
     WayElement(10, <<6, 6, 5>>, <<>>),
     WayElement(11, <<5, 8>>, <<<<"waterway", "river">>, <<"layer", "-6">>>>)}

Files == {FileRoad, FileArea, FileGaps, {}}

\* the arguments of the edit calls
EditNodeIds == {5, 6, -1}
TagNodeIds == {5}
EditWayIds == {10, 11}
WayTagMenu == {<<>>, <<<<"landuse", "grass">>, <<"layer", "7">>>>}
NodeTagMenu == {<<<<"name", "a">>>>}
\* Mercator points: (lon 4, lat 2) to move a node to, (lon 2, lat 4) to add one at
MoveMenu == {<<445276, 222684>>}
AddMenu == {<<222638, 445640>>}

(***************************************************************************)
(* State.                                                                  *)
(***************************************************************************)
\* the threads of the runtime that serve add_node calls at the same time
Threads == {1, 2}

VARIABLES
    nodes, ways, relations, node_ref_count,   \* OsmStore: the entity maps
    node_index, way_index,                    \* OsmStore: the two R-trees
    index_dirty, next_local_id,               \* OsmStore
    undo_stack, redo_stack,                   \* HistoryManager
    pc,          \* "new", "ingest" (load_pbf running) or "ready"
    pending,     \* elements of the file being loaded not yet inserted
    last,        \* what the most recent edit call returned
    n_ops,       \* number of edit calls issued
    run,         \* record of the run so far, for stating the properties
    local,       \* per thread: the id generate_local_id returned to it, if any
    issued,      \* the ids generate_local_id has returned, in order
    call,        \* the arguments of the read-only call being made, if any
    ret          \* what that call returned

vars == <<nodes, ways, relations, node_ref_count, node_index, way_index,
          index_dirty, next_local_id, undo_stack, redo_stack, pc, pending,
          last, n_ops, run, local, issued, call, ret>>

Store ==
    [nodes |-> nodes, ways |-> ways, relations |-> relations,
     node_ref_count |-> node_ref_count, node_index |-> node_index,
     way_index |-> way_index, index_dirty |-> index_dirty,
     next_local_id |-> next_local_id]

History == [undo_stack |-> undo_stack, redo_stack |-> redo_stack]

\* what the claims about undo and redo compare: stats, bounds and every
\* field of every entity
StoreView(s) ==
    [stats |-> stats(s), bounds |-> get_bounds(s), nodes |-> s.nodes,
     ways |-> s.ways, relations |-> s.relations]

\* the maps and indices of a store, without the id counter and dirty flag
StoreData(s) ==
    [nodes |-> s.nodes, ways |-> s.ways, relations |-> s.relations,
     node_ref_count |-> s.node_ref_count, node_index |-> s.node_index,
     way_index |-> s.way_index]

SetStore(s) ==
    /\ nodes' = s.nodes
    /\ ways' = s.ways
    /\ relations' = s.relations
    /\ node_ref_count' = s.node_ref_count
    /\ node_index' = s.node_index
    /\ way_index' = s.way_index
    /\ index_dirty' = s.index_dirty
    /\ next_local_id' = s.next_local_id

RunInit ==
    [phase |-> "exec", k |-> 0, n_undo |-> 0, n_redo |-> 0,
     base |-> StoreView(NewStore), post |-> StoreView(NewStore),
     snap |-> StoreData(NewStore), snap_undo |-> <<>>,
     last2 |-> Reply("none", 0)]

InitStore ==
    /\ nodes = NewStore.nodes
    /\ ways = NewStore.ways
    /\ relations = NewStore.relations
    /\ node_ref_count = NewStore.node_ref_count
    /\ node_index = NewStore.node_index
    /\ way_index = NewStore.way_index
    /\ index_dirty = NewStore.index_dirty
    /\ next_local_id = NewStore.next_local_id
    /\ undo_stack = <<>>
    /\ redo_stack = <<>>
    /\ pc = "new"
    /\ pending = {}
    /\ last = Reply("none", 0)
    /\ n_ops = 0
    /\ run = RunInit
    /\ local = [t \in Threads |-> <<>>]
    /\ issued = <<>>
    /\ ret = <<>>

Init == InitStore /\ call = <<>>

(***************************************************************************)
(* load_pbf: lib.rs, pbf_parser.rs parse_pbf_parallel                      *)
(***************************************************************************)
load_pbf(file) ==
    /\ pc = "new"
    /\ pc' = "ingest"
    /\ pending' = file
    /\ UNCHANGED <<nodes, ways, relations, node_ref_count, node_index, way_index,
                   index_dirty, next_local_id, undo_stack, redo_stack, last,
                   n_ops, run, local, issued, call, ret>>

\* the map closure of par_map_reduce on one element; the workers take the
\* elements in any order
parse_node(e) ==
    /\ pc = "ingest"
    /\ e \in pending /\ e.kind = "node"
    /\ SetStore(insert_node(Store, OsmNode(e.id, e.lon, e.lat, e.tags)))
    /\ pending' = pending \ {e}
    /\ UNCHANGED <<undo_stack, redo_stack, pc, last, n_ops, run, local, issued,
                   call, ret>>

parse_way(e) ==
    /\ pc = "ingest"
    /\ e \in pending /\ e.kind = "way"
    /\ LET parsed == parse_tags(e.tags)
           is_area == is_area_way(e.tags, e.node_refs)
       IN  SetStore(insert_way(Store, OsmWay(e.id, e.node_refs, e.tags,
                                             parsed.feature, parsed.layer, is_area)))
    /\ pending' = pending \ {e}
    /\ UNCHANGED <<undo_stack, redo_stack, pc, last, n_ops, run, local, issued,
                   call, ret>>

parse_relation(e) ==
    /\ pc = "ingest"
    /\ e \in pending /\ e.kind = "relation"
    /\ SetStore(insert_relation(Store, [id |-> e.id, members |-> e.members,
                                        tags |-> e.tags]))
    /\ pending' = pending \ {e}
    /\ UNCHANGED <<undo_stack, redo_stack, pc, last, n_ops, run, local, issued,
                   call, ret>>

\* after the reduce: store.rebuild_indices(), then load_pbf returns
finish_load ==
    /\ pc = "ingest"
    /\ pending = {}
    /\ SetStore(rebuild_indices(Store))
    /\ pc' = "ready"
    /\ run' = [run EXCEPT !.base = StoreView(rebuild_indices(Store)),
                          !.post = StoreView(rebuild_indices(Store)),
                          !.snap = StoreData(rebuild_indices(Store))]
    /\ UNCHANGED <<undo_stack, redo_stack, pending, last, n_ops, local, issued,
                   call, ret>>

(***************************************************************************)
(* The edit calls, issued one at a time once the load has returned.        *)
(***************************************************************************)
\* the record of the run after an edit call with outcome d
RunAfter(d) ==
    LET r == d.reply
        seen == [run EXCEPT !.last2 = last,
                            !.snap_undo = IF r.op = "undo" THEN undo_stack ELSE @]
    IN  CASE r.cmd # <<>> /\ r.success ->
                [seen EXCEPT !.phase = IF @ = "exec" THEN "exec" ELSE "mixed",
                             !.snap = StoreData(Store)]
          [] r.op = "undo" /\ r.success ->
                IF run.phase = "exec"
                THEN [seen EXCEPT !.phase = "undo", !.k = Len(undo_stack),
                                  !.n_undo = 1, !.post = StoreView(Store)]
                ELSE IF run.phase = "undo"
                THEN [seen EXCEPT !.n_undo = @ + 1]
                ELSE [seen EXCEPT !.phase = "mixed"]
          [] r.op = "redo" /\ r.success ->
                IF run.phase = "undo" /\ run.n_undo = run.k
                THEN [seen EXCEPT !.phase = "redo", !.n_redo = 1]
                ELSE IF run.phase = "redo"
                THEN [seen EXCEPT !.n_redo = @ + 1]
                ELSE [seen EXCEPT !.phase = "mixed"]
          [] r.op \in {"undo", "redo"} /\ ~r.success
             /\ r.message \notin {"Nothing to undo", "Nothing to redo"} ->
                [seen EXCEPT !.phase = "mixed"]
          [] OTHER -> seen

\* an edit call returns outcome d
Returns(d) ==
    /\ pc = "ready"
    /\ SetStore(d.store)
    /\ undo_stack' = d.history.undo_stack
    /\ redo_stack' = d.history.redo_stack
    /\ last' = d.reply
    /\ n_ops' = n_ops + 1
    /\ run' = RunAfter(d)
    /\ UNCHANGED <<pc, pending, call, ret>>

\* an edit call that runs from entry to return with no other call in between
Call(d) ==
    /\ Returns(d)
    /\ issued' = IF d.reply.op = "add_node" THEN Append(issued, d.reply.node_id[1])
                 ELSE issued
    /\ UNCHANGED local

UpdateWayTags(way_id, new_tags) == Call(update_way_tags(Store, History, way_id, new_tags))

UpdateNodeTags(node_id, new_tags) == Call(update_node_tags(Store, History, node_id, new_tags))

UndoCall == Call(undo(Store, History))

RedoCall == Call(redo(Store, History))

MoveNode(node_id, merc) == Call(move_node(Store, History, node_id, merc[1], merc[2]))

AddNode(merc) == Call(add_node(Store, History, merc[1], merc[2]))

DeleteWay(way_id) == Call(delete_way(Store, History, way_id))

DeleteNode(node_id) ==
    \E order \in Orderings(find_ways_referencing_node(Store, node_id)) :
        Call(delete_node(Store, History, node_id, order))

Load ==
    \/ \E file \in Files : load_pbf(file)
    \/ \E e \in pending : parse_node(e)
    \/ \E e \in pending : parse_way(e)
    \/ \E e \in pending : parse_relation(e)
    \/ finish_load

Edit ==
    \/ \E w \in EditWayIds, t \in WayTagMenu : UpdateWayTags(w, t)
    \/ \E n \in TagNodeIds, t \in NodeTagMenu : UpdateNodeTags(n, t)
    \/ \E n \in EditNodeIds, m \in MoveMenu : MoveNode(n, m)
    \/ \E m \in AddMenu : AddNode(m)
    \/ \E w \in EditWayIds : DeleteWay(w)
    \/ \E n \in EditNodeIds : DeleteNode(n)

\* the caller issues up to MaxOps edit calls in any order
Next ==
    \/ Load
    \/ n_ops < MaxOps /\ Edit
    \/ n_ops < MaxOps /\ UndoCall
    \/ n_ops < MaxOps /\ RedoCall

Spec == Init /\ [][Next]_vars

\* the caller issues up to MaxCmds edits, then undoes them, then redoes them
NextRoundTrip ==
    \/ Load
    \/ run.phase = "exec" /\ n_ops < MaxCmds /\ Edit
    \/ run.phase \in {"exec", "undo"} /\ undo_stack # <<>> /\ UndoCall
    \/ /\ \/ run.phase = "undo" /\ run.n_undo = run.k
          \/ run.phase = "redo"
       /\ redo_stack # <<>>
       /\ RedoCall

SpecRoundTrip == Init /\ [][NextRoundTrip]_vars

\* HistoryManager::execute called with a command built by other code than
\* the dispatcher: commands that name entities the store may not hold
RawCommands ==
    {MoveNodeCommand(8, 0, 0, 2, 2),
     UpdateNodeTagsCommand(7, <<>>, <<<<"name", "b">>>>),
     UpdateWayTagsCommand(11, <<>>, <<<<"building", "yes">>>>, DEFAULT, BUILDING,
                          0, 0, FALSE, FALSE)}

execute(s, h, command) ==
    LET r == HistoryManager_execute(h, command, s)
    IN  Outcome(r.store, r.history,
                [Reply("execute", 0) EXCEPT
                    !.success = r.result.success,
                    !.needs_redraw = r.result.needs_redraw,
                    !.message = r.result.message,
                    !.cmd = <<command>>])

ExecuteCommand(command) == Call(execute(Store, History, command))

\* the caller issues node and way edits through the dispatcher, and tag and
\* move commands through direct HistoryManager::execute calls
NextRaw ==
    \/ Load
    \/ n_ops < MaxOps /\ \E n \in EditNodeIds, m \in MoveMenu : MoveNode(n, m)
    \/ n_ops < MaxOps /\ \E m \in AddMenu : AddNode(m)
    \/ n_ops < MaxOps /\ \E w \in EditWayIds : DeleteWay(w)
    \/ n_ops < MaxOps /\ \E n \in EditNodeIds : DeleteNode(n)
    \/ n_ops < MaxOps /\ UndoCall
    \/ n_ops < MaxOps /\ RedoCall
    \/ n_ops < MaxOps /\ \E c \in RawCommands : ExecuteCommand(c)

SpecRaw == Init /\ [][NextRaw]_vars

(***************************************************************************)
(* spatial_query.rs: the LOD policy                                        *)
(***************************************************************************)
\* a zoom z stands for the f32 value z / ZoomScale
ZoomScale == 10

\* `zoom as u32` rounding to the nearest integer
AsU32_Rounds(zoom) ==
    IF zoom < 0 THEN 0 ELSE (zoom + 5) \div ZoomScale

\* `zoom as u32`: the fraction is dropped and negative values give 0 (the
\* values above u32::MAX, which give u32::MAX, fall in the last row as well)
AsU32(zoom) ==
    IF zoom < 0 THEN 0 ELSE zoom \div ZoomScale

get_render_limits(zoom) ==
    LET z == AsU32(zoom)
    IN  IF z <= 8 THEN <<10000, 5000>>
        ELSE IF z <= 11 THEN <<30000, 15000>>
        ELSE IF z <= 14 THEN <<80000, 40000>>
        ELSE IF z <= 17 THEN <<150000, 80000>>
        ELSE IF z <= 21 THEN <<300000, 150000>>
        ELSE IF z <= 24 THEN <<500000, 250000>>
        ELSE <<800000, 400000>>

NodeLodConfig(show_nodes, min_ref_count, max_nodes) ==
    [show_nodes |-> show_nodes, min_ref_count |-> min_ref_count,
     max_nodes |-> max_nodes]

get_node_lod_config(zoom) ==
    LET z == AsU32(zoom)
    IN  IF z <= 17 THEN NodeLodConfig(FALSE, 0, 0)
        ELSE IF z <= 19 THEN NodeLodConfig(TRUE, 2, 50000)
        ELSE IF z <= 21 THEN NodeLodConfig(TRUE, 0, 100000)
        ELSE NodeLodConfig(TRUE, 0, 300000)

(***************************************************************************)
(* osm_store.rs range queries, polygon_assembler.rs, spatial_query.rs      *)
(* query_viewport                                                          *)
(***************************************************************************)
Viewport(min_lon, min_lat, max_lon, max_lat, zoom) ==
    [min_lon |-> min_lon, min_lat |-> min_lat, max_lon |-> max_lon,
     max_lat |-> max_lat, zoom |-> zoom]

\* the entries of an R-tree whose envelope intersects the query box, each as
\* often as the tree holds it
InEnvelope(index, v) ==
    LET Hit(e) == /\ e.min_lon <= v.max_lon /\ e.max_lon >= v.min_lon
                  /\ e.min_lat <= v.max_lat /\ e.max_lat >= v.min_lat
        hits == {e \in DOMAIN index : Hit(e)}
    IN  [e \in hits |-> index[e]]

\* locate_in_envelope_intersecting yields the entries in the order of the
\* tree traversal, which depends on how the tree was built: any order
RECURSIVE Traversals(_)
Traversals(b) ==
    IF DOMAIN b = {} THEN {<<>>}
    ELSE UNION {{<<e>> \o t : t \in Traversals(IF b[e] = 1 THEN MapDel(b, e)
                                                 ELSE [b EXCEPT ![e] = @ - 1])}
                : e \in DOMAIN b}

\* entries is what the node R-tree yielded for the box
RECURSIVE query_nodes_in_viewport(_, _)
query_nodes_in_viewport(s, entries) ==
    IF entries = <<>> THEN <<>>
    ELSE (IF Head(entries).id \in DOMAIN s.nodes
          THEN <<s.nodes[Head(entries).id]>> ELSE <<>>)
         \o query_nodes_in_viewport(s, Tail(entries))

\* entries is what the way R-tree yielded for the box
RECURSIVE query_way_ids_in_viewport(_)
query_way_ids_in_viewport(entries) ==
    IF entries = <<>> THEN <<>>
    ELSE <<Head(entries).id>> \o query_way_ids_in_viewport(Tail(entries))

\* the projected coordinates of the referenced nodes that are present
RECURSIVE Coords(_, _)
Coords(s, refs) ==
    IF refs = <<>> THEN <<>>
    ELSE (IF Head(refs) \in DOMAIN s.nodes
          THEN <<lonlat_to_mercator(s.nodes[Head(refs)].lon, s.nodes[Head(refs)].lat)>>
          ELSE <<>>)
         \o Coords(s, Tail(refs))

\* binary_protocol.rs reads a way_id from the polygon: the id of the way
AssembledPolygon(way_id, render_feature, layer, rings) ==
    [way_id |-> way_id, render_feature |-> render_feature, layer |-> layer,
     rings |-> rings]

\* <<polygon>> for Some(polygon), <<>> for None
assemble_from_closed_way(s, way_id) ==
    IF way_id \notin DOMAIN s.ways THEN <<>>
    ELSE LET way == s.ways[way_id]
             coords == Coords(s, way.node_refs)
         IN  IF Len(way.node_refs) < 4 THEN <<>>
             ELSE IF way.node_refs[1] # way.node_refs[Len(way.node_refs)] THEN <<>>
             ELSE IF Len(coords) < 4 THEN <<>>
             ELSE <<AssembledPolygon(way_id, way.render_feature, way.layer,
                                     <<coords>>)>>

(***************************************************************************)
(* polygon_assembler.rs: stitch_ways_to_rings, assemble_from_relation      *)
(***************************************************************************)
ReverseSeq(q) == [i \in 1..Len(q) |-> q[Len(q) + 1 - i]]

\* the node_refs of the ways that are in the store with two refs or more
RECURSIVE Segments(_, _)
Segments(s, way_ids) ==
    IF way_ids = <<>> THEN <<>>
    ELSE (IF Head(way_ids) \in DOMAIN s.ways
             /\ Len(s.ways[Head(way_ids)].node_refs) >= 2
          THEN <<s.ways[Head(way_ids)].node_refs>> ELSE <<>>)
         \o Segments(s, Tail(way_ids))

\* endpoint_index[node]: (segment, is_start) pairs in the order pushed, the
\* start of a segment before its end; <<>> for a node that is no endpoint
RECURSIVE EndpointsAt(_, _, _)
EndpointsAt(segments, node, idx) ==
    IF idx > Len(segments) THEN <<>>
    ELSE LET seg == segments[idx]
         IN  (IF seg[1] = node THEN <<[seg_idx |-> idx, is_start |-> TRUE]>> ELSE <<>>)
             \o (IF seg[Len(seg)] = node
                 THEN <<[seg_idx |-> idx, is_start |-> FALSE]>> ELSE <<>>)
             \o EndpointsAt(segments, node, idx + 1)

RingClosed(ring) == Len(ring) >= 4 /\ ring[1] = ring[Len(ring)]

\* a segment taken forward whichever of its ends matched
Oriented_NeverReverses(segment, forward) == segment

\* the refs a segment adds to the ring: as stored when its start matched the
\* tail, reversed when its end did
Oriented(segment, forward) == IF forward THEN segment ELSE ReverseSeq(segment)

\* the inner loop: take the segment in, stop when the ring is closed or no
\* unused segment ends at the tail, else go on with the first such segment
RECURSIVE WalkLoop(_, _, _, _, _)
WalkLoop(segments, used, current_ring, current_idx, forward) ==
    LET now_used == used \cup {current_idx}
        seg == Oriented(segments[current_idx], forward)
        ring == IF current_ring = <<>> THEN seg ELSE current_ring \o Tail(seg)
        candidates == SelectSeq(EndpointsAt(segments, ring[Len(ring)], 1),
                                LAMBDA c : c.seg_idx \notin now_used)
    IN  IF RingClosed(ring) \/ candidates = <<>>
        THEN [ring |-> ring, used |-> now_used]
        ELSE WalkLoop(segments, now_used, ring, candidates[1].seg_idx,
                      candidates[1].is_start)

\* the outer loop from start_idx on: the rings that closed, as the projected
\* coordinates of their present nodes, those of fewer than four dropped
RECURSIVE StitchFrom(_, _, _, _)
StitchFrom(s, segments, start_idx, used) ==
    IF start_idx > Len(segments) THEN <<>>
    ELSE IF start_idx \in used THEN StitchFrom(s, segments, start_idx + 1, used)
    ELSE LET w == WalkLoop(segments, used, <<>>, start_idx, TRUE)
             coords == Coords(s, w.ring)
         IN  (IF RingClosed(w.ring) /\ Len(coords) >= 4 THEN <<coords>> ELSE <<>>)
             \o StitchFrom(s, segments, start_idx + 1, w.used)

\* the walks from start_idx on, each begun with no segment marked used
RECURSIVE StitchAfreshFrom(_, _, _)
StitchAfreshFrom(s, segments, start_idx) ==
    IF start_idx > Len(segments) THEN <<>>
    ELSE LET w == WalkLoop(segments, {}, <<>>, start_idx, TRUE)
             coords == Coords(s, w.ring)
         IN  (IF RingClosed(w.ring) /\ Len(coords) >= 4 THEN <<coords>> ELSE <<>>)
             \o StitchAfreshFrom(s, segments, start_idx + 1)

\* a stitching that starts every walk with no segment marked used
stitch_ways_to_rings_EachStartAfresh(s, way_ids) ==
    StitchAfreshFrom(s, Segments(s, way_ids), 1)

stitch_ways_to_rings(s, way_ids) ==
    IF way_ids = <<>> THEN <<>>
    ELSE StitchFrom(s, Segments(s, way_ids), 1, {})

\* the way members of one of the roles, in member order
MemberWays(members, roles) ==
    LET picked == SelectSeq(members, LAMBDA m : m.member_type = "Way"
                                                /\ m.role \in roles)
    IN  [i \in 1..Len(picked) |-> picked[i].ref_id]

\* a polygon that leaves out the rings of the inner members
assemble_from_relation_OuterOnly(s, relation_id) ==
    IF relation_id \notin DOMAIN s.relations THEN <<>>
    ELSE LET relation == s.relations[relation_id]
             parsed == parse_tags(relation.tags)
             outer_rings == stitch_ways_to_rings(
                                s, MemberWays(relation.members, {"outer", ""}))
         IN  IF ~\E i \in 1..Len(relation.tags) :
                    relation.tags[i] = <<"type", "multipolygon">>
             THEN <<>>
             ELSE IF outer_rings = <<>> THEN <<>>
             ELSE <<[render_feature |-> parsed.feature, layer |-> parsed.layer,
                     rings |-> outer_rings]>>

\* <<polygon>> for Some(polygon), <<>> for None; the polygon has the fields
\* of the struct of polygon_assembler.rs
assemble_from_relation(s, relation_id) ==
    IF relation_id \notin DOMAIN s.relations THEN <<>>
    ELSE LET relation == s.relations[relation_id]
             parsed == parse_tags(relation.tags)
             outer_rings == stitch_ways_to_rings(
                                s, MemberWays(relation.members, {"outer", ""}))
             inner_rings == stitch_ways_to_rings(
                                s, MemberWays(relation.members, {"inner"}))
         IN  IF ~\E i \in 1..Len(relation.tags) :
                    relation.tags[i] = <<"type", "multipolygon">>
             THEN <<>>
             ELSE IF outer_rings = <<>> THEN <<>>
             ELSE <<[render_feature |-> parsed.feature, layer |-> parsed.layer,
                     rings |-> outer_rings \o inner_rings]>>

NodeWithPriority(id, lon, lat, ref_count) ==
    [id |-> id, lon |-> lon, lat |-> lat, ref_count |-> ref_count]

\* the filter_map of query_viewport: nodes with their ref_count, those below
\* min_ref_count dropped
RECURSIVE Prioritize(_, _, _)
Prioritize(s, raw_nodes, min_ref_count) ==
    IF raw_nodes = <<>> THEN <<>>
    ELSE LET node == Head(raw_nodes)
             ref_count == IF node.id \in DOMAIN s.node_ref_count
                          THEN s.node_ref_count[node.id] ELSE 0
         IN  (IF ref_count >= min_ref_count
              THEN <<NodeWithPriority(node.id, node.lon, node.lat, ref_count)>>
              ELSE <<>>)
             \o Prioritize(s, Tail(raw_nodes), min_ref_count)

\* slice::sort_by / sort_by_key on <<key, item>> pairs, ascending by key: a
\* stable sort, here by inserting each pair behind the pairs that do not
\* compare greater
InsertSorted_Unstable(sorted, p) ==
    LET k == Cardinality({i \in 1..Len(sorted) : sorted[i][1] < p[1]})
    IN  SubSeq(sorted, 1, k) \o <<p>> \o SubSeq(sorted, k + 1, Len(sorted))

InsertSorted(sorted, p) ==
    LET k == Cardinality({i \in 1..Len(sorted) : sorted[i][1] <= p[1]})
    IN  SubSeq(sorted, 1, k) \o <<p>> \o SubSeq(sorted, k + 1, Len(sorted))

RECURSIVE StableSort(_)
StableSort(pairs) ==
    IF pairs = <<>> THEN <<>>
    ELSE InsertSorted(StableSort(SubSeq(pairs, 1, Len(pairs) - 1)), pairs[Len(pairs)])

Items(pairs) == [i \in 1..Len(pairs) |-> pairs[i][2]]

\* prioritized.sort_by(|a, b| b.ref_count.cmp(&a.ref_count))
SortByRefCountDesc(prioritized) ==
    Items(StableSort([i \in 1..Len(prioritized) |->
                         <<0 - prioritized[i].ref_count, prioritized[i]>>]))

\* a truncate that keeps one element more
Truncate_OneMore(v, len) == IF Len(v) > len THEN SubSeq(v, 1, len + 1) ELSE v

\* Vec::truncate
Truncate(v, len) == IF Len(v) > len THEN SubSeq(v, 1, len) ELSE v

\* the loop that separates the area ways from the line ways
RECURSIVE Partition(_, _, _)
Partition(s, way_ids, area) ==
    IF way_ids = <<>> THEN <<>>
    ELSE (IF Head(way_ids) \in DOMAIN s.ways /\ s.ways[Head(way_ids)].is_area = area
          THEN <<Head(way_ids)>> ELSE <<>>)
         \o Partition(s, Tail(way_ids), area)

RECURSIVE AssembleAll(_, _)
AssembleAll(s, area_way_ids) ==
    IF area_way_ids = <<>> THEN <<>>
    ELSE assemble_from_closed_way(s, Head(area_way_ids))
         \o AssembleAll(s, Tail(area_way_ids))

ViewportQueryResult(nodes_, way_ids, polygons, truncated) ==
    [nodes |-> nodes_, way_ids |-> way_ids, polygons |-> polygons,
     truncated |-> truncated]

\* query_viewport from line 124 on, where the policy of the zoom is known;
\* node_entries and way_entries are what the two R-trees yield for the box
query_viewport_with(s, node_entries, way_entries, node_lod, max_ways) ==
    LET sorted == IF node_lod.show_nodes
                  THEN SortByRefCountDesc(
                           Prioritize(s, query_nodes_in_viewport(s, node_entries),
                                      node_lod.min_ref_count))
                  ELSE <<>>
        found == query_way_ids_in_viewport(way_entries)
        way_ids == Truncate(found, max_ways)
    IN  ViewportQueryResult(
            Truncate(sorted, node_lod.max_nodes),
            Partition(s, way_ids, FALSE),
            AssembleAll(s, Partition(s, way_ids, TRUE)),
            Len(sorted) > node_lod.max_nodes \/ Len(found) > max_ways)

query_viewport(s, viewport, node_entries, way_entries) ==
    query_viewport_with(s, node_entries, way_entries,
                        get_node_lod_config(viewport.zoom),
                        get_render_limits(viewport.zoom)[2])

(***************************************************************************)
(* render_feature.rs calculate_z_order, binary_protocol.rs                 *)
(***************************************************************************)
\* base_type::extract: the low byte of the feature
extract(feature) == feature % 256

\* flags::has, for the single-bit flags
has(feature, flag) == (feature \div flag) % 2 = 1

\* a z-order that takes no account of the flags
calculate_z_order_FlagsIgnored(feature, layer) ==
    LET base_type == extract(feature)
        layer_z == layer * 100
        type_z ==
            IF base_type \in {WATERWAY_RIVER, WATERWAY_STREAM, WATERWAY_CANAL} THEN -30
            ELSE IF base_type = NATURAL_WATER THEN -35
            ELSE IF base_type \in {LANDUSE, NATURAL_GRASS} THEN -20
            ELSE IF base_type = NATURAL_WOOD THEN -15
            ELSE IF base_type = BUILDING THEN -10
            ELSE IF base_type \in {HIGHWAY_PATH, HIGHWAY_STEPS} THEN 0
            ELSE IF base_type = HIGHWAY_ROAD THEN 5
            ELSE IF base_type = HIGHWAY_MINOR THEN 10
            ELSE IF base_type = HIGHWAY_MAJOR THEN 15
            ELSE IF base_type \in {RAILWAY_MAIN, RAILWAY_LIGHT} THEN 20
            ELSE IF base_type = BOUNDARY THEN 50
            ELSE 0
        flag_z == 0
    IN  layer_z + type_z + flag_z

calculate_z_order(feature, layer) ==
    LET base_type == extract(feature)
        layer_z == layer * 100
        type_z ==
            IF base_type \in {WATERWAY_RIVER, WATERWAY_STREAM, WATERWAY_CANAL} THEN -30
            ELSE IF base_type = NATURAL_WATER THEN -35
            ELSE IF base_type \in {LANDUSE, NATURAL_GRASS} THEN -20
            ELSE IF base_type = NATURAL_WOOD THEN -15
            ELSE IF base_type = BUILDING THEN -10
            ELSE IF base_type \in {HIGHWAY_PATH, HIGHWAY_STEPS} THEN 0
            ELSE IF base_type = HIGHWAY_ROAD THEN 5
            ELSE IF base_type = HIGHWAY_MINOR THEN 10
            ELSE IF base_type = HIGHWAY_MAJOR THEN 15
            ELSE IF base_type \in {RAILWAY_MAIN, RAILWAY_LIGHT} THEN 20
            ELSE IF base_type = BOUNDARY THEN 50
            ELSE 0
        flag_z == IF has(feature, TUNNEL) THEN -40
                  ELSE IF has(feature, BRIDGE) THEN 40
                  ELSE 0
    IN  layer_z + type_z + flag_z

\* a buffer is the sequence of the values written to it, each with its type;
\* its length in bytes is the sum of the widths of the types
Field(type, value) == [type |-> type, value |-> value]

Width(type) ==
    CASE type = "u16" -> 2 [] type = "u32" -> 4 [] type = "i64" -> 8 [] type = "f64" -> 8

RECURSIVE ByteLen(_)
ByteLen(buffer) ==
    IF buffer = <<>> THEN 0 ELSE Width(Head(buffer).type) + ByteLen(Tail(buffer))

RECURSIVE Flatten(_)
Flatten(buffers) ==
    IF buffers = <<>> THEN <<>> ELSE Head(buffers) \o Flatten(Tail(buffers))

\* the x and y of each point, as f64
PointFields(coords) ==
    Flatten([i \in 1..Len(coords) |->
                <<Field("f64", coords[i][1]), Field("f64", coords[i][2])>>])

\* NodePriorityBinary of each node, 32 bytes with the two paddings
encode_priority_nodes(nodes_) ==
    Flatten([i \in 1..Len(nodes_) |->
                LET xy == lonlat_to_mercator(nodes_[i].lon, nodes_[i].lat)
                IN  <<Field("i64", nodes_[i].id), Field("f64", xy[1]),
                      Field("f64", xy[2]), Field("u16", nodes_[i].ref_count),
                      Field("u16", 0), Field("u32", 0)>>])

\* one pass of the first loop of encode_ways_geometry, with every way that
\* is in the store kept, however few of its nodes are present
WayDataOf_KeepsShort(s, way_id) ==
    IF way_id \notin DOMAIN s.ways THEN <<>>
    ELSE LET way == s.ways[way_id]
         IN  <<[way_id |-> way_id, render_feature |-> way.render_feature,
                z_order |-> calculate_z_order(way.render_feature, way.layer),
                coords |-> Coords(s, way.node_refs)]>>

\* one pass of the first loop of encode_ways_geometry: <<data>> of a way
\* that is in the store and has two present nodes or more, <<>> (continue)
\* otherwise
WayDataOf(s, way_id) ==
    IF way_id \notin DOMAIN s.ways THEN <<>>
    ELSE LET way == s.ways[way_id]
             coords == Coords(s, way.node_refs)
         IN  IF Len(coords) < 2 THEN <<>>
             ELSE <<[way_id |-> way_id, render_feature |-> way.render_feature,
                     z_order |-> calculate_z_order(way.render_feature, way.layer),
                     coords |-> coords]>>

\* the first loop of encode_ways_geometry
RECURSIVE CollectWayData(_, _)
CollectWayData(s, way_ids) ==
    IF way_ids = <<>> THEN <<>>
    ELSE WayDataOf(s, Head(way_ids)) \o CollectWayData(s, Tail(way_ids))

\* the encoder without its sort_by_key: records in the order collected
encode_ways_geometry_Unsorted(s, way_ids) ==
    LET ways_data == CollectWayData(s, way_ids)
    IN  <<Field("u32", Len(ways_data))>>
        \o Flatten([i \in 1..Len(ways_data) |->
                        <<Field("i64", ways_data[i].way_id),
                          Field("u16", ways_data[i].render_feature),
                          Field("u32", Len(ways_data[i].coords))>>
                        \o PointFields(ways_data[i].coords)])

encode_ways_geometry(s, way_ids) ==
    LET collected == CollectWayData(s, way_ids)
        ways_data == Items(StableSort([i \in 1..Len(collected) |->
                                          <<collected[i].z_order, collected[i]>>]))
    IN  <<Field("u32", Len(ways_data))>>
        \o Flatten([i \in 1..Len(ways_data) |->
                        <<Field("i64", ways_data[i].way_id),
                          Field("u16", ways_data[i].render_feature),
                          Field("u32", Len(ways_data[i].coords))>>
                        \o PointFields(ways_data[i].coords)])

encode_polygons_geometry(polygons) ==
    LET sorted == Items(StableSort([i \in 1..Len(polygons) |->
                           <<calculate_z_order(polygons[i].render_feature,
                                               polygons[i].layer), polygons[i]>>]))
        RingFields(rings) ==
            Flatten([j \in 1..Len(rings) |->
                        <<Field("u32", Len(rings[j]))>> \o PointFields(rings[j])])
    IN  <<Field("u32", Len(sorted))>>
        \o Flatten([i \in 1..Len(sorted) |->
                        <<Field("i64", sorted[i].way_id),
                          Field("u16", sorted[i].render_feature),
                          Field("u16", AsU16(Len(sorted[i].rings)))>>
                        \o RingFields(sorted[i].rings)])

\* a header count that is never read from the section
LeadingU32_ReadsNothing(data) == 0

\* u32::from_le_bytes of the first four bytes of a section
LeadingU32(data) == IF ByteLen(data) >= 4 THEN data[1].value ELSE 0

build_viewport_response_v4(s, nodes_, way_ids, polygons, truncated) ==
    LET way_data == encode_ways_geometry(s, way_ids)
        node_data == encode_priority_nodes(nodes_)
        polygon_data == encode_polygons_geometry(polygons)
        header == <<Field("u32", Len(nodes_)),
                    Field("u32", LeadingU32(way_data)),
                    Field("u32", LeadingU32(polygon_data)),
                    Field("u32", IF truncated THEN 1 ELSE 0)>>
    IN  header \o node_data \o way_data \o polygon_data

\* the zoom values tried: -2.0 to 27.0 in steps of 0.1
ZoomValues == -20..MaxZoom

\* query_viewport lines 120-121: the policy it takes from the zoom
LodPolicy ==
    /\ call # <<>> /\ call[1].fn = "lod" /\ ret = <<>>
    /\ ret' = <<[max_ways |-> get_render_limits(call[1].zoom)[2],
                 node_lod |-> get_node_lod_config(call[1].zoom)]>>
    /\ UNCHANGED <<nodes, ways, relations, node_ref_count, node_index, way_index,
                   index_dirty, next_local_id, undo_stack, redo_stack, pc,
                   pending, last, n_ops, run, local, issued, call>>

\* tags for each base category, and the layer tags tried with them
BaseTagMenu ==
    {<<>>,
     <<<<"highway", "primary">>>>, <<<<"highway", "secondary">>>>,
     <<<<"highway", "residential">>>>, <<<<"highway", "path">>>>,
     <<<<"highway", "steps">>>>, <<<<"railway", "rail">>>>,
     <<<<"railway", "tram">>>>, <<<<"waterway", "river">>>>,
     <<<<"waterway", "stream">>>>, <<<<"waterway", "canal">>>>,
     <<<<"building", "yes">>>>, <<<<"natural", "wood">>>>,
     <<<<"natural", "water">>>>, <<<<"natural", "grassland">>>>,
     <<<<"landuse", "grass">>>>, <<<<"boundary", "administrative">>>>}

LayerTagMenu ==
    {<<>>, <<<<"layer", "x">>>>} \cup {<<<<"layer", p[1]>>>> : p \in NumeralTable}

\* ParsedFeature::z_order of parse_tags(tags)
Classified(tags) ==
    LET parsed == parse_tags(tags)
    IN  [feature |-> parsed.feature, layer |-> parsed.layer,
         z_order |-> calculate_z_order(parsed.feature, parsed.layer)]

\* the three features of test_z_order_tunnel_below_bridge, for any base tags
\* and layer tag
ClassifyWithFlags ==
    /\ call # <<>> /\ call[1].fn = "z_order" /\ ret = <<>>
    /\ ret' = <<[normal |-> Classified(call[1].base \o call[1].layer),
                 bridge |-> Classified(call[1].base \o <<<<"bridge", "yes">>>>
                                       \o call[1].layer),
                 tunnel |-> Classified(call[1].base \o <<<<"tunnel", "yes">>>>
                                       \o call[1].layer)]>>
    /\ UNCHANGED <<nodes, ways, relations, node_ref_count, node_index, way_index,
                   index_dirty, next_local_id, undo_stack, redo_stack, pc,
                   pending, last, n_ops, run, local, issued, call>>

\* tag lists of two features to compare: a base category, a flag or none,
\* and a layer of -1, 0 or 1
FlagTagMenu == {<<>>, <<<<"bridge", "yes">>>>, <<<<"tunnel", "yes">>>>}

PairTagMenu ==
    {b \o f \o l : b \in BaseTagMenu, f \in FlagTagMenu,
                   l \in {<<<<"layer", "-1">>>>, <<<<"layer", "0">>>>,
                          <<<<"layer", "1">>>>}}

\* the features of test_layer_effect, for any two tag lists
ClassifyPair ==
    /\ call # <<>> /\ call[1].fn = "z_order_pair" /\ ret = <<>>
    /\ ret' = <<[a |-> Classified(call[1].a), b |-> Classified(call[1].b)]>>
    /\ UNCHANGED <<nodes, ways, relations, node_ref_count, node_index, way_index,
                   index_dirty, next_local_id, undo_stack, redo_stack, pc,
                   pending, last, n_ops, run, local, issued, call>>

\* tags of the seven category keys, with a known value, an unknown one or
\* "no", and the lists of up to MaxTags of them, keys repeated or not
CategoryTagMenu ==
    {<<"waterway", "canal">>, <<"waterway", "weir">>, <<"natural", "water">>,
     <<"natural", "peak">>, <<"railway", "tram">>, <<"railway", "halt">>,
     <<"highway", "primary">>, <<"highway", "bus_stop">>, <<"building", "yes">>,
     <<"building", "no">>, <<"landuse", "grass">>,
     <<"boundary", "administrative">>, <<"boundary", "no">>}

TagLists == UNION {[1..n -> CategoryTagMenu] : n \in 0..MaxTags}

\* parse_tags(&tags)
ParseTags ==
    /\ call # <<>> /\ call[1].fn = "parse_tags" /\ ret = <<>>
    /\ ret' = <<parse_tags(call[1].tags)>>
    /\ UNCHANGED <<nodes, ways, relations, node_ref_count, node_index, way_index,
                   index_dirty, next_local_id, undo_stack, redo_stack, pc,
                   pending, last, n_ops, run, local, issued, call>>

\* tags that bear on is_area_way, in lists of up to MaxAreaTags; node_refs
\* closed with four and five entries, unclosed, closed with three, empty
AreaTagMenu ==
    {<<"area", "yes">>, <<"area", "no">>, <<"building", "yes">>,
     <<"building", "no">>, <<"leisure", "track">>, <<"natural", "water">>,
     <<"natural", "coastline">>, <<"waterway", "riverbank">>,
     <<"waterway", "river">>, <<"highway", "primary">>}

AreaTagLists == UNION {[1..n -> AreaTagMenu] : n \in 0..MaxAreaTags}

AreaNodeRefs == {<<1, 2, 3, 1>>, <<1, 2, 3, 4, 1>>, <<1, 2, 3, 4, 5>>, <<1, 2, 1>>, <<>>}

\* is_area_way(&tags, &node_refs)
IsAreaWay ==
    /\ call # <<>> /\ call[1].fn = "is_area_way" /\ ret = <<>>
    /\ ret' = <<[is_area |-> is_area_way(call[1].tags, call[1].node_refs)]>>
    /\ UNCHANGED <<nodes, ways, relations, node_ref_count, node_index, way_index,
                   index_dirty, next_local_id, undo_stack, redo_stack, pc,
                   pending, last, n_ops, run, local, issued, call>>

PureCalls ==
    {<<[fn |-> "lod", zoom |-> z]>> : z \in ZoomValues}
    \cup {<<[fn |-> "is_area_way", tags |-> t, node_refs |-> r]>> :
             t \in AreaTagLists, r \in AreaNodeRefs}
    \cup {<<[fn |-> "parse_tags", tags |-> t]>> : t \in TagLists}
    \cup {<<[fn |-> "z_order", base |-> b, layer |-> l]>> :
             b \in BaseTagMenu, l \in LayerTagMenu}
    \cup {<<[fn |-> "z_order_pair", a |-> a, b |-> b]>> :
             a \in PairTagMenu, b \in PairTagMenu}

InitPure == InitStore /\ call \in PureCalls

NextPure ==
    LodPolicy \/ ClassifyWithFlags \/ ClassifyPair \/ ParseTags \/ IsAreaWay

SpecPure == InitPure /\ [][NextPure]_vars

(***************************************************************************)
(* commands/query.rs query_viewport_full                                    *)
(***************************************************************************)
\* the viewports asked for: two boxes at zoom 17.0, 18.5 and 20.5
Viewports ==
    {Viewport(b[1], b[2], b[3], b[4], z) :
        b \in {<<0, 0, 4, 4>>, <<0, 0, 2, 2>>}, z \in {170, 185, 205}}

\* the caps of the LOD table are far above the sizes of the stores tried;
\* query_viewport is run with them, <<>>, and also with max_nodes and
\* max_ways lowered to these values, so that results exceed them
CapChoices == {<<>>, <<1, 2>>, <<2, 1>>}

QueryViewportFull(viewport, caps) ==
    /\ ret = <<>>
    /\ \E node_entries \in Traversals(InEnvelope(node_index, viewport)),
          way_entries \in Traversals(InEnvelope(way_index, viewport)) :
          LET policy == get_node_lod_config(viewport.zoom)
              node_lod == IF caps = <<>> \/ ~policy.show_nodes THEN policy
                          ELSE [policy EXCEPT !.max_nodes = caps[1]]
              max_ways == IF caps = <<>> THEN get_render_limits(viewport.zoom)[2]
                          ELSE caps[2]
              result == query_viewport_with(Store, node_entries, way_entries,
                                            node_lod, max_ways)
          IN  /\ call' = <<[fn |-> "query_viewport_full", viewport |-> viewport,
                            node_entries |-> node_entries,
                            way_entries |-> way_entries,
                            node_lod |-> node_lod, max_ways |-> max_ways]>>
              /\ ret' = <<[result |-> result,
                           response |->
                               build_viewport_response_v4(Store, result.nodes,
                                   result.way_ids, result.polygons,
                                   result.truncated)]>>
    /\ UNCHANGED <<nodes, ways, relations, node_ref_count, node_index, way_index,
                   index_dirty, next_local_id, undo_stack, redo_stack, pc,
                   pending, last, n_ops, run, local, issued>>

\* files for the queries: three line ways, two of one z_order around one
\* that sorts below them; three closed area ways arranged the same way
FileLayers ==
    {NodeElement(5, 0, 0), NodeElement(6, 2, 2), NodeElement(7, 4, 4),
     WayElement(10, <<5, 6>>, <<<<"highway", "primary">>>>),
     WayElement(11, <<6, 7>>, <<<<"waterway", "river">>>>),
     WayElement(12, <<7, 5>>, <<<<"highway", "primary">>>>)}

FileParks ==
    {NodeElement(5, 0, 0), NodeElement(6, 2, 0), NodeElement(7, 2, 4),
     WayElement(10, <<5, 6, 7, 5>>, <<<<"building", "yes">>>>),
     WayElement(11, <<6, 7, 5, 6>>, <<<<"landuse", "grass">>>>),
     WayElement(12, <<7, 5, 6, 7>>, <<<<"building", "yes">>>>)}

\* a file cut out of a larger one: a closed building whose first and last
\* node 5 lies outside the cut and is not in the file
FileClipped ==
    {NodeElement(6, 0, 0), NodeElement(7, 2, 0), NodeElement(8, 2, 2),
     NodeElement(9, 0, 2),
     WayElement(10, <<5, 6, 7, 8, 9, 5>>, <<<<"building", "yes">>>>)}

QueryFiles == Files \cup {FileLayers, FileParks, FileClipped}

LoadForQuery ==
    \/ \E file \in QueryFiles : load_pbf(file)
    \/ \E e \in pending : parse_node(e)
    \/ \E e \in pending : parse_way(e)
    \/ \E e \in pending : parse_relation(e)
    \/ finish_load

\* the way ids given to the encoder when it is called on its own: 13 is in
\* no file
EncoderInputs == {<<10, 11, 12>>, <<13, 11, 10>>}

\* encode_ways_geometry(&store, way_ids), as its test calls it
EncodeWaysGeometry(way_ids) ==
    /\ ret = <<>>
    /\ call' = <<[fn |-> "encode_ways_geometry", way_ids |-> way_ids]>>
    /\ ret' = <<[way_data |-> encode_ways_geometry(Store, way_ids)]>>
    /\ UNCHANGED <<nodes, ways, relations, node_ref_count, node_index, way_index,
                   index_dirty, next_local_id, undo_stack, redo_stack, pc,
                   pending, last, n_ops, run, local, issued>>

\* the caller loads a file, makes up to MaxQueryEdits edits and queries a
\* viewport; a query can also come before or during the load
NextQuery ==
    \/ ret = <<>> /\ LoadForQuery
    \/ ret = <<>> /\ n_ops < MaxQueryEdits
       /\ \E n \in EditNodeIds, m \in MoveMenu : MoveNode(n, m)
    \/ ret = <<>> /\ n_ops < MaxQueryEdits /\ \E m \in AddMenu : AddNode(m)
    \/ ret = <<>> /\ n_ops < MaxQueryEdits /\ \E w \in EditWayIds : DeleteWay(w)
    \/ ret = <<>> /\ n_ops < MaxQueryEdits /\ \E n \in EditNodeIds : DeleteNode(n)
    \/ ret = <<>> /\ n_ops < MaxQueryEdits /\ UndoCall
    \/ \E v \in Viewports, caps \in CapChoices : QueryViewportFull(v, caps)
    \/ \E way_ids \in EncoderInputs : EncodeWaysGeometry(way_ids)

SpecQuery == Init /\ [][NextQuery]_vars

(***************************************************************************)
(* spatial_query.rs pick_feature                                            *)
(***************************************************************************)
\* squares of Mercator metres are beyond 2^31: the f64 products of
\* pick_feature are kept exactly, as naturals written in digits to the base
\* 10000, the lowest first and the highest non-zero
RECURSIVE Wide(_)
Wide(n) == IF n = 0 THEN <<>> ELSE <<n % 10000>> \o Wide(n \div 10000)

RECURSIVE WideTrim(_)
WideTrim(a) ==
    IF a # <<>> /\ a[Len(a)] = 0 THEN WideTrim(SubSeq(a, 1, Len(a) - 1)) ELSE a

RECURSIVE WideAddCarry(_, _, _)
WideAddCarry(a, b, carry) ==
    IF a = <<>> /\ b = <<>> THEN Wide(carry)
    ELSE LET x == (IF a = <<>> THEN 0 ELSE a[1]) + (IF b = <<>> THEN 0 ELSE b[1])
                  + carry
         IN  <<x % 10000>>
             \o WideAddCarry(IF a = <<>> THEN <<>> ELSE Tail(a),
                             IF b = <<>> THEN <<>> ELSE Tail(b), x \div 10000)

WideAdd(a, b) == WideAddCarry(a, b, 0)

\* a - b, for a >= b
RECURSIVE WideSubBorrow(_, _, _)
WideSubBorrow(a, b, borrow) ==
    IF a = <<>> THEN <<>>
    ELSE LET x == a[1] - (IF b = <<>> THEN 0 ELSE b[1]) - borrow
         IN  <<(x + 10000) % 10000>>
             \o WideSubBorrow(Tail(a), IF b = <<>> THEN <<>> ELSE Tail(b),
                              IF x < 0 THEN 1 ELSE 0)

WideSub(a, b) == WideTrim(WideSubBorrow(a, b, 0))

RECURSIVE WideTimesDigit(_, _, _)
WideTimesDigit(a, d, carry) ==
    IF a = <<>> THEN Wide(carry)
    ELSE LET x == a[1] * d + carry
         IN  <<x % 10000>> \o WideTimesDigit(Tail(a), d, x \div 10000)

RECURSIVE WideMulRaw(_, _)
WideMulRaw(a, b) ==
    IF b = <<>> THEN <<>>
    ELSE WideAdd(WideTimesDigit(a, b[1], 0), <<0>> \o WideMulRaw(a, Tail(b)))

WideMul(a, b) == WideTrim(WideMulRaw(a, b))

RECURSIVE WideLess(_, _)
WideLess(a, b) ==
    IF Len(a) # Len(b) THEN Len(a) < Len(b)
    ELSE IF a = <<>> THEN FALSE
    ELSE IF a[Len(a)] # b[Len(b)] THEN a[Len(a)] < b[Len(b)]
    ELSE WideLess(SubSeq(a, 1, Len(a) - 1), SubSeq(b, 1, Len(b) - 1))

Abs(x) == IF x < 0 THEN -x ELSE x

\* dx * dx + dy * dy
SumOfSquares(dx, dy) ==
    WideAdd(WideMul(Wide(Abs(dx)), Wide(Abs(dx))),
            WideMul(Wide(Abs(dy)), Wide(Abs(dy))))

\* a squared distance: the quotient num / den of two such naturals
Quotient(num, den) == [num |-> num, den |-> den]
QuotientLess(q, r) == WideLess(WideMul(q.num, r.den), WideMul(r.num, q.den))
QuotientLeq(q, r) == ~QuotientLess(r, q)

\* t = dot / len_sq clamped to [0, 1]; the distance from the projected point
\* x1 + t * dx, y1 + t * dy. Between the ends it is
\* (|p - p1|^2 * len_sq - dot^2) / len_sq
point_to_segment_distance_sq(px, py, x1, y1, x2, y2) ==
    LET dx == x2 - x1
        dy == y2 - y1
        len_sq == SumOfSquares(dx, dy)
        Term(u, v) == WideMul(Wide(Abs(u)), Wide(Abs(v)))
        Positive(u, v) == (u > 0 /\ v > 0) \/ (u < 0 /\ v < 0)
        plus == WideAdd(IF Positive(px - x1, dx) THEN Term(px - x1, dx) ELSE <<>>,
                        IF Positive(py - y1, dy) THEN Term(py - y1, dy) ELSE <<>>)
        minus == WideAdd(IF Positive(px - x1, dx) THEN <<>> ELSE Term(px - x1, dx),
                         IF Positive(py - y1, dy) THEN <<>> ELSE Term(py - y1, dy))
        dot == WideSub(plus, minus)
    IN  IF len_sq = <<>>
        THEN Quotient(SumOfSquares(px - x1, py - y1), Wide(1))
        ELSE IF ~WideLess(minus, plus)
        THEN Quotient(SumOfSquares(px - x1, py - y1), Wide(1))
        ELSE IF ~WideLess(dot, len_sq)
        THEN Quotient(SumOfSquares(px - x2, py - y2), Wide(1))
        ELSE Quotient(WideSub(WideMul(SumOfSquares(px - x1, py - y1), len_sq),
                              WideMul(dot, dot)),
                      len_sq)

PickedFeature(type, id) == [type |-> type, id |-> id]

meters_per_degree == 111320

\* the nodes of zoom 18.0 and of zoom 20.0
PickPriorityZoom == 180
PickAllZoom == 200

\* the first loop: entries is what the node R-tree yields for the box of
\* tolerance_meters / meters_per_degree degrees around the click
RECURSIVE ClosestNode(_, _, _, _, _, _, _)
ClosestNode(s, entries, merc_x, merc_y, tolerance_sq, zoom, closest_node) ==
    IF entries = <<>> THEN closest_node
    ELSE LET entry == Head(entries)
             rest == Tail(entries)
         IN  IF entry.id \notin DOMAIN s.nodes
             THEN ClosestNode(s, rest, merc_x, merc_y, tolerance_sq, zoom, closest_node)
             ELSE
             LET node == s.nodes[entry.id]
                 ref_count == IF entry.id \in DOMAIN s.node_ref_count
                              THEN s.node_ref_count[entry.id] ELSE 0
                 is_high_priority == ref_count >= 2
                 is_visible == IF is_high_priority THEN zoom >= PickPriorityZoom
                               ELSE zoom >= PickAllZoom
                 m == lonlat_to_mercator(node.lon, node.lat)
                 dist_sq == Quotient(SumOfSquares(m[1] - merc_x, m[2] - merc_y),
                                     Wide(1))
             IN  ClosestNode(s, rest, merc_x, merc_y, tolerance_sq, zoom,
                     IF /\ is_visible
                        /\ QuotientLeq(dist_sq, tolerance_sq)
                        /\ (closest_node = <<>> \/ QuotientLess(dist_sq, closest_node[1][2]))
                     THEN <<<<entry.id, dist_sq>>>>
                     ELSE closest_node)

\* the inner loop of the second: the least distance to a segment of the way
\* with both ends in the store; <<>> is f64::MAX
RECURSIVE MinSegmentDistSq(_, _, _, _, _, _)
MinSegmentDistSq(s, node_refs, i, merc_x, merc_y, min_dist_sq) ==
    IF i > Len(node_refs) - 1 THEN min_dist_sq
    ELSE MinSegmentDistSq(s, node_refs, i + 1, merc_x, merc_y,
             IF node_refs[i] \in DOMAIN s.nodes /\ node_refs[i + 1] \in DOMAIN s.nodes
             THEN LET n1 == s.nodes[node_refs[i]]
                      n2 == s.nodes[node_refs[i + 1]]
                      m1 == lonlat_to_mercator(n1.lon, n1.lat)
                      m2 == lonlat_to_mercator(n2.lon, n2.lat)
                      dist_sq == point_to_segment_distance_sq(merc_x, merc_y,
                                     m1[1], m1[2], m2[1], m2[2])
                  IN  IF min_dist_sq = <<>> \/ QuotientLess(dist_sq, min_dist_sq[1])
                      THEN <<dist_sq>> ELSE min_dist_sq
             ELSE min_dist_sq)

RECURSIVE ClosestWay(_, _, _, _, _, _)
ClosestWay(s, entries, merc_x, merc_y, tolerance_sq, closest_way) ==
    IF entries = <<>> THEN closest_way
    ELSE LET entry == Head(entries)
             rest == Tail(entries)
         IN  IF entry.id \notin DOMAIN s.ways \/ Len(s.ways[entry.id].node_refs) < 2
             THEN ClosestWay(s, rest, merc_x, merc_y, tolerance_sq, closest_way)
             ELSE
             LET min_dist_sq == MinSegmentDistSq(s, s.ways[entry.id].node_refs, 1,
                                                 merc_x, merc_y, <<>>)
             IN  ClosestWay(s, rest, merc_x, merc_y, tolerance_sq,
                     IF /\ min_dist_sq # <<>>
                        /\ QuotientLeq(min_dist_sq[1], tolerance_sq)
                        /\ (closest_way = <<>> \/ QuotientLess(min_dist_sq[1], closest_way[1][2]))
                     THEN <<<<entry.id, min_dist_sq[1]>>>>
                     ELSE closest_way)

\* the entries of the node R-tree inside the search box: click - tolerance_deg
\* <= position <= click + tolerance_deg on both axes, with
\* tolerance_deg = tolerance_meters / meters_per_degree
InSearchBox(index, click, tolerance_meters) ==
    LET Hit(e) == /\ (click[1] - e.min_lon) * meters_per_degree <= tolerance_meters
                  /\ (e.max_lon - click[1]) * meters_per_degree <= tolerance_meters
                  /\ (click[2] - e.min_lat) * meters_per_degree <= tolerance_meters
                  /\ (e.max_lat - click[2]) * meters_per_degree <= tolerance_meters
        hits == {e \in DOMAIN index : Hit(e)}
    IN  [e \in hits |-> index[e]]

\* the entries of the way R-tree whose box meets the box of 1e-9 degrees
\* around the click
InClickBox(index, click) ==
    InEnvelope(index, Viewport(click[1], click[2], click[1], click[2], 0))

\* pick_feature, given the orders in which the two R-trees yield their entries
pick_feature_with(s, node_entries, way_entries, merc_x, merc_y, tolerance_meters, zoom) ==
    LET tolerance_sq == Quotient(SumOfSquares(tolerance_meters, 0), Wide(1))
        closest_node == ClosestNode(s, node_entries, merc_x, merc_y, tolerance_sq,
                                    zoom, <<>>)
        closest_way == ClosestWay(s, way_entries, merc_x, merc_y, tolerance_sq, <<>>)
    IN  IF closest_node # <<>> THEN PickedFeature("Node", closest_node[1][1])
        ELSE IF closest_way # <<>> THEN PickedFeature("Way", closest_way[1][1])
        ELSE PickedFeature("None", 0)

\* a file to click in: a road along the equator, one along the meridian of
\* 2 degrees, a diagonal one; a way of one node; a way whose second node is
\* not in the file; node 3 in no way
FilePick ==
    {NodeElement(3, 4, 4), NodeElement(5, 0, 0), NodeElement(6, 2, 0),
     NodeElement(7, 2, 2), NodeElement(8, 4, 0),
     WayElement(10, <<5, 6>>, <<<<"highway", "primary">>>>),
     WayElement(11, <<6, 7>>, <<<<"highway", "primary">>>>),
     WayElement(12, <<5, 7>>, <<<<"waterway", "river">>>>),
     WayElement(13, <<8>>, <<>>),
     WayElement(14, <<8, 9>>, <<>>)}

PickFiles == {FilePick}

\* the clicks, in degrees; pick_feature is given their Mercator metres
PickClicks ==
    {<<0, 0>>, <<1, 0>>, <<2, 0>>, <<3, 0>>, <<4, 0>>, <<1, 2>>, <<2, 2>>,
     <<3, 4>>, <<4, 4>>}

\* the tolerances: none; the Mercator metres of one degree of longitude;
\* meters_per_degree; more than two degrees
PickTolerances == {0, MercXPerDeg, meters_per_degree, 2 * meters_per_degree + 1}

\* zoom 17.0, 18.0, 19.5 and 20.0
PickZooms == {170, 180, 195, 200}

PickFeature(click, tolerance_meters, zoom) ==
    /\ ret = <<>>
    /\ LET merc == lonlat_to_mercator(click[1], click[2])
           at == mercator_to_lonlat(merc[1], merc[2])
       IN  \E node_entries \in Traversals(InSearchBox(node_index, at, tolerance_meters)),
              way_entries \in Traversals(InClickBox(way_index, at)) :
              /\ call' = <<[fn |-> "pick_feature", merc_x |-> merc[1],
                            merc_y |-> merc[2],
                            tolerance_meters |-> tolerance_meters, zoom |-> zoom]>>
              /\ ret' = <<[picked |-> pick_feature_with(Store, node_entries,
                                          way_entries, merc[1], merc[2],
                                          tolerance_meters, zoom)]>>
    /\ UNCHANGED <<nodes, ways, relations, node_ref_count, node_index, way_index,
                   index_dirty, next_local_id, undo_stack, redo_stack, pc,
                   pending, last, n_ops, run, local, issued>>

LoadForPick ==
    \/ \E file \in PickFiles : load_pbf(file)
    \/ \E e \in pending : parse_node(e)
    \/ \E e \in pending : parse_way(e)
    \/ finish_load

NextPick ==
    \/ ret = <<>> /\ LoadForPick
    \/ \E click \in PickClicks, t \in PickTolerances, z \in PickZooms :
          PickFeature(click, t, z)

SpecPick == Init /\ [][NextPick]_vars

(***************************************************************************)
(* polygon_assembler.rs assemble_from_relation, on stores loaded from      *)
(* files with multipolygon relations                                       *)
(***************************************************************************)
\* five nodes on the grid and three ways 31 = [1,2,3], 32 = [3,4],
\* 33 = [4,5,1] that chain into a ring; a file stores the ways of reversed
\* back to front and lists them in relation 40 in the given order, way 32
\* with an empty role
ChainNodes ==
    {NodeElement(1, 0, 0), NodeElement(2, 2, 0), NodeElement(3, 4, 0),
     NodeElement(4, 4, 2), NodeElement(5, 2, 2)}

ChainRefs(way_id) ==
    CASE way_id = 31 -> <<1, 2, 3>> [] way_id = 32 -> <<3, 4>> [] way_id = 33 -> <<4, 5, 1>>

ChainFile(order, reversed) ==
    ChainNodes
    \cup {WayElement(w, IF w \in reversed THEN ReverseSeq(ChainRefs(w))
                        ELSE ChainRefs(w), <<>>) : w \in {31, 32, 33}}
    \cup {RelationElement(40,
              [i \in 1..3 |-> RelationMember("Way", order[i],
                                  IF order[i] = 32 THEN "" ELSE "outer")],
              <<<<"type", "multipolygon">>, <<"natural", "water">>>>)}

ChainFiles ==
    {ChainFile(order, reversed) :
        order \in Orderings({31, 32, 33}), reversed \in SUBSET {31, 32, 33}}

\* a square with a triangular hole: relation 40 lists the inner way first,
\* then a node member whose ref is the id of way 33, way 33 (a closed way)
\* in another role, and the outer way; relation 41 is a route over the same
\* outer way; relation 42 is a multipolygon whose only outer member is an
\* open way, beside a closed inner one
FileHoles ==
    {NodeElement(1, 0, 0), NodeElement(2, 4, 0), NodeElement(3, 4, 4),
     NodeElement(4, 0, 4), NodeElement(5, 2, 2), NodeElement(6, 2, 4),
     NodeElement(7, 0, 2),
     WayElement(31, <<1, 2, 3, 4, 1>>, <<>>),
     WayElement(32, <<5, 6, 7, 5>>, <<>>),
     WayElement(33, <<1, 5, 7, 1>>, <<>>),
     WayElement(34, <<1, 2>>, <<>>),
     RelationElement(40, <<RelationMember("Way", 32, "inner"),
                           RelationMember("Node", 33, "outer"),
                           RelationMember("Way", 33, "label"),
                           RelationMember("Way", 31, "outer")>>,
                     <<<<"landuse", "forest">>, <<"type", "multipolygon">>>>),
     RelationElement(41, <<RelationMember("Way", 31, "outer")>>,
                     <<<<"type", "route">>>>),
     RelationElement(42, <<RelationMember("Way", 34, "outer"),
                           RelationMember("Way", 32, "inner")>>,
                     <<<<"type", "multipolygon">>>>)}

\* relation 40 lists a spur, way 35 from node 5 to node 1, ahead of the
\* closed way 31 it leads to and of the closed way 32; relation 42 lists the
\* closed way 31 twice
FileSpur ==
    {NodeElement(1, 0, 0), NodeElement(2, 4, 0), NodeElement(3, 4, 4),
     NodeElement(4, 0, 4), NodeElement(5, 2, 2), NodeElement(6, 2, 4),
     NodeElement(7, 0, 2),
     WayElement(31, <<1, 2, 3, 4, 1>>, <<>>),
     WayElement(32, <<5, 6, 7, 5>>, <<>>),
     WayElement(35, <<5, 1>>, <<>>),
     RelationElement(40, <<RelationMember("Way", 35, "outer"),
                           RelationMember("Way", 31, "outer"),
                           RelationMember("Way", 32, "outer")>>,
                     <<<<"type", "multipolygon">>>>),
     RelationElement(42, <<RelationMember("Way", 31, "outer"),
                           RelationMember("Way", 31, "outer")>>,
                     <<<<"type", "multipolygon">>>>)}

AssembleFiles == ChainFiles \cup {FileHoles, FileSpur}

\* 43 is the id of no relation
AssembleIds == {40, 41, 42, 43}

\* assemble_from_relation(&store, relation_id)
AssembleFromRelation(relation_id) ==
    /\ ret = <<>>
    /\ call' = <<[fn |-> "assemble_from_relation", relation_id |-> relation_id]>>
    /\ ret' = <<[polygon |-> assemble_from_relation(Store, relation_id)]>>
    /\ UNCHANGED <<nodes, ways, relations, node_ref_count, node_index, way_index,
                   index_dirty, next_local_id, undo_stack, redo_stack, pc,
                   pending, last, n_ops, run, local, issued>>

LoadForAssemble ==
    \/ \E file \in AssembleFiles : load_pbf(file)
    \/ \E e \in pending : parse_node(e)
    \/ \E e \in pending : parse_way(e)
    \/ \E e \in pending : parse_relation(e)
    \/ finish_load

\* a file is loaded and a relation is assembled, during the load or after
NextAssemble ==
    \/ ret = <<>> /\ LoadForAssemble
    \/ \E relation_id \in AssembleIds : AssembleFromRelation(relation_id)

SpecAssemble == Init /\ [][NextAssemble]_vars

\* add_node calls served by several threads at once: a thread's call takes
\* its id with one atomic fetch_sub and runs the command later, after other
\* threads may have taken theirs
Held == Cardinality({t \in Threads : local[t] # <<>>})

GenerateLocalId(t) ==
    /\ pc = "ready"
    /\ local[t] = <<>>
    /\ n_ops + Held < MaxOps
    /\ LET g == generate_local_id(Store)
       IN  /\ SetStore(g.store)
           /\ local' = [local EXCEPT ![t] = <<g.id>>]
           /\ issued' = Append(issued, g.id)
    /\ UNCHANGED <<undo_stack, redo_stack, pc, pending, last, n_ops, run, call, ret>>

AddNodeExecute(t, merc) ==
    /\ local[t] # <<>>
    /\ Returns(add_node_with_id(Store, History, merc[1], merc[2], local[t][1]))
    /\ local' = [local EXCEPT ![t] = <<>>]
    /\ UNCHANGED issued

NextIds ==
    \/ Load
    \/ \E t \in Threads : GenerateLocalId(t)
    \/ \E t \in Threads, m \in AddMenu : AddNodeExecute(t, m)
    \/ n_ops + Held < MaxOps /\ UndoCall
    \/ n_ops + Held < MaxOps /\ RedoCall

SpecIds == Init /\ [][NextIds]_vars

(***************************************************************************)
(* history.rs HistoryManager, its calls served by several threads at once. *)
(* local[t] is the frame of the call thread t is in: the function, the     *)
(* place reached in it, the Mutex guards alive there, the command held and *)
(* the result so far.  A Mutex is locked when a frame has a guard of it.   *)
(***************************************************************************)
Frame(fn, at, holds, cmd, result) ==
    [fn |-> fn, at |-> at, holds |-> holds, cmd |-> cmd, result |-> result]

InCall(t) == local[t] # <<>>

Locked(mutex) == \E t \in Threads : InCall(t) /\ mutex \in local[t][1].holds

\* the Mutex a frame asks for at "lock_undo" and at "lock_redo"
MutexAt(at) == IF at = "lock_undo" THEN "undo_stack" ELSE "redo_stack"

\* where each function goes once the lock() it waits in has returned
AfterLock(fn, at) ==
    CASE fn = "execute" /\ at = "lock_undo" -> "lock_redo"
      [] fn = "execute" /\ at = "lock_redo" -> "push_clear"
      [] fn = "undo" /\ at = "lock_undo" -> "pop"
      [] fn = "undo" /\ at = "lock_redo" -> "push"
      [] fn = "redo" /\ at = "lock_redo" -> "pop"
      [] fn = "redo" /\ at = "lock_undo" -> "push"
      [] fn \in {"undo_count", "redo_count"} -> "len"
      [] fn = "clear" -> "clear"

\* the first place of each function
Entry(fn) ==
    CASE fn = "execute" -> "apply"
      [] fn \in {"undo", "undo_count", "clear"} -> "lock_undo"
      [] fn \in {"redo", "redo_count"} -> "lock_redo"

GoTo(t, at, holds, cmd, result) ==
    local' = [local EXCEPT ![t] = <<Frame(local[t][1].fn, at, holds, cmd, result)>>]

\* the commands handed to execute: adding node -1, and moving it
HistoryCommands ==
    {AddNodeCommand(OsmNode(-1, 0, 0, <<>>)), MoveNodeCommand(-1, 0, 0, 2, 2)}

HistoryCalls ==
    {<<"execute", <<c>>>> : c \in HistoryCommands}
    \cup {<<fn, <<>>>> : fn \in {"undo", "redo", "undo_count", "redo_count", "clear"}}

\* ret is <<"execute">> from the return of an execute with a successful
\* result to the start of the next undo, and <<>> otherwise
BeginCall(t, fn, cmd) ==
    /\ ~InCall(t)
    /\ n_ops < MaxHistoryCalls
    /\ n_ops' = n_ops + 1
    /\ local' = [local EXCEPT ![t] = <<Frame(fn, Entry(fn), {}, cmd, <<>>)>>]
    /\ ret' = IF fn = "undo" THEN <<>> ELSE ret
    /\ UNCHANGED <<nodes, ways, relations, node_ref_count, node_index, way_index,
                   index_dirty, next_local_id, undo_stack, redo_stack, pc,
                   pending, last, run, issued, call>>

\* Mutex::lock: returns once no other guard of the Mutex is alive
Lock(t) ==
    /\ InCall(t)
    /\ local[t][1].at \in {"lock_undo", "lock_redo"}
    /\ ~Locked(MutexAt(local[t][1].at))
    /\ GoTo(t, AfterLock(local[t][1].fn, local[t][1].at),
            local[t][1].holds \cup {MutexAt(local[t][1].at)},
            local[t][1].cmd, local[t][1].result)
    /\ UNCHANGED <<nodes, ways, relations, node_ref_count, node_index, way_index,
                   index_dirty, next_local_id, undo_stack, redo_stack, pc,
                   pending, last, n_ops, run, issued, call, ret>>

\* execute: command.apply(store)
ExecuteApply(t) ==
    /\ InCall(t) /\ local[t][1].fn = "execute" /\ local[t][1].at = "apply"
    /\ LET r == Apply(local[t][1].cmd[1], Store)
       IN  /\ SetStore(r.store)
           /\ GoTo(t, IF r.result.success THEN "lock_undo" ELSE "return",
                   local[t][1].holds, local[t][1].cmd, <<r.result>>)
    /\ UNCHANGED <<undo_stack, redo_stack, pc, pending, last, n_ops, run,
                   issued, call, ret>>

\* execute: undo_stack.push(command); redo_stack.clear(); both guards dropped
ExecutePush(t) ==
    /\ InCall(t) /\ local[t][1].fn = "execute" /\ local[t][1].at = "push_clear"
    /\ undo_stack' = Append(undo_stack, local[t][1].cmd[1])
    /\ redo_stack' = <<>>
    /\ GoTo(t, "return", {}, <<>>, local[t][1].result)
    /\ UNCHANGED <<nodes, ways, relations, node_ref_count, node_index, way_index,
                   index_dirty, next_local_id, pc, pending, last, n_ops, run,
                   issued, call, ret>>

\* redo that keeps the guard of the redo stack until it returns
RedoPop_KeepsGuard(t) ==
    /\ InCall(t) /\ local[t][1].fn = "redo" /\ local[t][1].at = "pop"
    /\ IF redo_stack = <<>>
       THEN /\ GoTo(t, "return", {}, <<>>,
                    <<CommandResult_failure("Nothing to redo")>>)
            /\ UNCHANGED redo_stack
       ELSE /\ redo_stack' = Pop(redo_stack)
            /\ GoTo(t, "run", local[t][1].holds, <<Top(redo_stack)>>, <<>>)
    /\ UNCHANGED <<nodes, ways, relations, node_ref_count, node_index, way_index,
                   index_dirty, next_local_id, undo_stack, pc, pending, last,
                   n_ops, run, issued, call, ret>>

\* redo: redo_stack.pop(), the guard dropped at the end of the block
RedoPop(t) ==
    /\ InCall(t) /\ local[t][1].fn = "redo" /\ local[t][1].at = "pop"
    /\ IF redo_stack = <<>>
       THEN /\ GoTo(t, "return", {}, <<>>,
                    <<CommandResult_failure("Nothing to redo")>>)
            /\ UNCHANGED redo_stack
       ELSE /\ redo_stack' = Pop(redo_stack)
            /\ GoTo(t, "run", {}, <<Top(redo_stack)>>, <<>>)
    /\ UNCHANGED <<nodes, ways, relations, node_ref_count, node_index, way_index,
                   index_dirty, next_local_id, undo_stack, pc, pending, last,
                   n_ops, run, issued, call, ret>>

\* undo: undo_stack.pop(), the guard dropped at the end of the block
UndoPop(t) ==
    /\ InCall(t) /\ local[t][1].fn = "undo" /\ local[t][1].at = "pop"
    /\ IF undo_stack = <<>>
       THEN /\ GoTo(t, "return", {}, <<>>,
                    <<CommandResult_failure("Nothing to undo")>>)
            /\ UNCHANGED undo_stack
       ELSE /\ undo_stack' = Pop(undo_stack)
            /\ GoTo(t, "run", {}, <<Top(undo_stack)>>, <<>>)
    /\ UNCHANGED <<nodes, ways, relations, node_ref_count, node_index, way_index,
                   index_dirty, next_local_id, redo_stack, pc, pending, last,
                   n_ops, run, issued, call, ret>>

\* undo: cmd.undo(store); redo: cmd.apply(store)
RunPopped(t) ==
    /\ InCall(t) /\ local[t][1].fn \in {"undo", "redo"} /\ local[t][1].at = "run"
    /\ LET r == IF local[t][1].fn = "undo" THEN Undo(local[t][1].cmd[1], Store)
                ELSE Apply(local[t][1].cmd[1], Store)
       IN  /\ SetStore(r.store)
           /\ GoTo(t, IF ~r.result.success THEN "return"
                      ELSE IF local[t][1].fn = "undo" THEN "lock_redo"
                      ELSE "lock_undo",
                   local[t][1].holds, local[t][1].cmd, <<r.result>>)
    /\ UNCHANGED <<undo_stack, redo_stack, pc, pending, last, n_ops, run,
                   issued, call, ret>>

\* undo: redo_stack.push(cmd); redo: undo_stack.push(cmd); guards dropped
PushPopped(t) ==
    /\ InCall(t) /\ local[t][1].fn \in {"undo", "redo"} /\ local[t][1].at = "push"
    /\ IF local[t][1].fn = "undo"
       THEN redo_stack' = Append(redo_stack, local[t][1].cmd[1])
            /\ UNCHANGED undo_stack
       ELSE undo_stack' = Append(undo_stack, local[t][1].cmd[1])
            /\ UNCHANGED redo_stack
    /\ GoTo(t, "return", {}, <<>>, local[t][1].result)
    /\ UNCHANGED <<nodes, ways, relations, node_ref_count, node_index, way_index,
                   index_dirty, next_local_id, pc, pending, last, n_ops, run,
                   issued, call, ret>>

\* undo_count, redo_count: lock().unwrap().len()
CountLen(t) ==
    /\ InCall(t) /\ local[t][1].at = "len"
    /\ GoTo(t, "return", {}, <<>>,
            <<IF local[t][1].fn = "undo_count" THEN Len(undo_stack)
              ELSE Len(redo_stack)>>)
    /\ UNCHANGED <<nodes, ways, relations, node_ref_count, node_index, way_index,
                   index_dirty, next_local_id, undo_stack, redo_stack, pc,
                   pending, last, n_ops, run, issued, call, ret>>

\* clear: each stack cleared under its own guard, dropped with the statement
ClearStack(t) ==
    /\ InCall(t) /\ local[t][1].fn = "clear" /\ local[t][1].at = "clear"
    /\ IF "undo_stack" \in local[t][1].holds
       THEN /\ undo_stack' = <<>>
            /\ UNCHANGED redo_stack
            /\ GoTo(t, "lock_redo", {}, <<>>, <<>>)
       ELSE /\ redo_stack' = <<>>
            /\ UNCHANGED undo_stack
            /\ GoTo(t, "return", {}, <<>>, <<>>)
    /\ UNCHANGED <<nodes, ways, relations, node_ref_count, node_index, way_index,
                   index_dirty, next_local_id, pc, pending, last, n_ops, run,
                   issued, call, ret>>

Return(t) ==
    /\ InCall(t) /\ local[t][1].at = "return"
    /\ local' = [local EXCEPT ![t] = <<>>]
    /\ ret' = IF local[t][1].fn = "execute" /\ local[t][1].result[1].success
              THEN <<"execute">> ELSE ret
    /\ UNCHANGED <<nodes, ways, relations, node_ref_count, node_index, way_index,
                   index_dirty, next_local_id, undo_stack, redo_stack, pc,
                   pending, last, n_ops, run, issued, call>>

\* the steps of the call thread t is in
Advance(t) ==
    \/ Lock(t)
    \/ ExecuteApply(t)
    \/ ExecutePush(t)
    \/ UndoPop(t)
    \/ RedoPop(t)
    \/ RunPopped(t)
    \/ PushPopped(t)
    \/ CountLen(t)
    \/ ClearStack(t)
    \/ Return(t)

NextHistory ==
    \/ \E t \in Threads, c \in HistoryCalls : BeginCall(t, c[1], c[2])
    \/ \E t \in Threads : Advance(t)

SpecHistory == Init /\ [][NextHistory]_vars

\* every thread in a call is run again and again by the scheduler
SpecHistoryFair == SpecHistory /\ \A t \in Threads : WF_vars(Advance(t))

(***************************************************************************)
(* osm_store.rs update_node_position, called by several threads at once.   *)
(* The node map entry is written under the guard of DashMap::get_mut, the  *)
(* node R-tree under node_index.write(), the way R-tree under              *)
(* way_index.write(); nothing is held from one of the three to the next.   *)
(***************************************************************************)
MoveFrame(at, node_id, new_lon, new_lat, old_entry, affected_ways, locked, result) ==
    [fn |-> "update_node_position", at |-> at, node_id |-> node_id,
     new_lon |-> new_lon, new_lat |-> new_lat, old_entry |-> old_entry,
     affected_ways |-> affected_ways, locked |-> locked, result |-> result]

\* the nodes moved and where to
MovedNodeIds == {5, 8}
MoveTargets == {<<4, 4>>, <<4, 0>>}

BeginMove(t, node_id, to) ==
    /\ pc = "ready"
    /\ ~InCall(t)
    /\ n_ops < MaxMoves
    /\ n_ops' = n_ops + 1
    /\ local' = [local EXCEPT ![t] =
                    <<MoveFrame("write", node_id, to[1], to[2], <<>>, {}, FALSE, <<>>)>>]
    /\ UNCHANGED <<nodes, ways, relations, node_ref_count, node_index, way_index,
                   index_dirty, next_local_id, undo_stack, redo_stack, pc,
                   pending, last, run, issued, call, ret>>

\* 1. nodes.get_mut: the old position read, the new one written
WritePosition(t) ==
    /\ InCall(t) /\ local[t][1].at = "write"
    /\ LET f == local[t][1]
       IN  IF f.node_id \notin DOMAIN nodes
           THEN /\ local' = [local EXCEPT ![t] =
                                <<[f EXCEPT !.at = "return", !.result = <<FALSE>>]>>]
                /\ UNCHANGED nodes
           ELSE /\ nodes' = [nodes EXCEPT ![f.node_id].lon = f.new_lon,
                                          ![f.node_id].lat = f.new_lat]
                /\ local' = [local EXCEPT ![t] =
                                <<[f EXCEPT !.at = "node_index",
                                            !.old_entry =
                                                <<PointEntry(f.node_id,
                                                             nodes[f.node_id].lon,
                                                             nodes[f.node_id].lat)>>]>>]
    /\ UNCHANGED <<ways, relations, node_ref_count, node_index, way_index,
                   index_dirty, next_local_id, undo_stack, redo_stack, pc,
                   pending, last, n_ops, run, issued, call, ret>>

\* 2. node_index.write(): index.remove(&old_entry); index.insert(new_entry)
UpdateNodeIndex(t) ==
    /\ InCall(t) /\ local[t][1].at = "node_index"
    /\ LET f == local[t][1]
       IN  /\ node_index' =
                  RTreeInsert(RTreeRemove(node_index, f.old_entry[1]),
                              PointEntry(f.node_id, f.new_lon, f.new_lat))
           /\ local' = [local EXCEPT ![t] = <<[f EXCEPT !.at = "collect"]>>]
    /\ UNCHANGED <<nodes, ways, relations, node_ref_count, way_index,
                   index_dirty, next_local_id, undo_stack, redo_stack, pc,
                   pending, last, n_ops, run, issued, call, ret>>

\* 3. affected_ways collected from the way map
CollectWays(t) ==
    /\ InCall(t) /\ local[t][1].at = "collect"
    /\ LET f == local[t][1]
           affected_ways == find_ways_referencing_node(Store, f.node_id)
       IN  local' = [local EXCEPT ![t] =
                        <<[f EXCEPT !.at = IF affected_ways = {} THEN "return"
                                           ELSE "way_index",
                                    !.affected_ways = affected_ways,
                                    !.result = <<TRUE>>]>>]
    /\ UNCHANGED <<nodes, ways, relations, node_ref_count, node_index, way_index,
                   index_dirty, next_local_id, undo_stack, redo_stack, pc,
                   pending, last, n_ops, run, issued, call, ret>>

\* 3. way_index.write(), taken once for the loop: one turn of the loop, the
\* positions of the nodes read as they are at that moment
RefreshWay(t) ==
    /\ InCall(t) /\ local[t][1].at = "way_index"
    /\ \A u \in Threads \ {t} :
          ~(InCall(u) /\ local[u][1].fn = "update_node_position" /\ local[u][1].locked)
    /\ LET f == local[t][1]
       IN  \E way_id \in f.affected_ways :
              LET rest == f.affected_ways \ {way_id}
              IN  /\ way_index' = RefreshWayEntry(Store, way_index, way_id)
                  /\ local' = [local EXCEPT ![t] =
                                  <<[f EXCEPT !.at = IF rest = {} THEN "return"
                                                     ELSE "way_index",
                                              !.affected_ways = rest,
                                              !.locked = rest # {}]>>]
    /\ UNCHANGED <<nodes, ways, relations, node_ref_count, node_index,
                   index_dirty, next_local_id, undo_stack, redo_stack, pc,
                   pending, last, n_ops, run, issued, call, ret>>

NextMoves ==
    \/ Load
    \/ \E t \in Threads, n \in MovedNodeIds, to \in MoveTargets : BeginMove(t, n, to)
    \/ \E t \in Threads : WritePosition(t)
    \/ \E t \in Threads : UpdateNodeIndex(t)
    \/ \E t \in Threads : CollectWays(t)
    \/ \E t \in Threads : RefreshWay(t)
    \/ \E t \in Threads : Return(t)

SpecMoves == Init /\ [][NextMoves]_vars

(***************************************************************************)
(* commands/data.rs load_pbf and pbf_parser.rs parse_pbf_parallel, with    *)
(* the value returned and the ways to fail.  local[1] is the frame of the  *)
(* call: the file, the triple reduced so far and the number of calls of    *)
(* rebuild_indices made.                                                   *)
(***************************************************************************)
LoadFrame(file, counts, rebuilds) ==
    [fn |-> "load_pbf", file |-> file, counts |-> counts, rebuilds |-> rebuilds]

\* Ok(ParseProgress {..}) and Err(..)
ParseProgress(counts) ==
    [nodes_parsed |-> counts[1], ways_parsed |-> counts[2],
     relations_parsed |-> counts[3], bytes_read |-> 0, total_bytes |-> 0]

LoadOk(progress) == [result |-> "Ok", progress |-> <<progress>>]
LoadErr == [result |-> "Err", progress |-> <<>>]

\* the map closure of par_map_reduce: the insert made for an element
InsertElement(s, e) ==
    CASE e.kind = "node" -> insert_node(s, OsmNode(e.id, e.lon, e.lat, e.tags))
      [] e.kind = "way" ->
            insert_way(s, OsmWay(e.id, e.node_refs, e.tags,
                                 parse_tags(e.tags).feature, parse_tags(e.tags).layer,
                                 is_area_way(e.tags, e.node_refs)))
      [] e.kind = "relation" ->
            insert_relation(s, [id |-> e.id, members |-> e.members, tags |-> e.tags])

\* a closure that counts every element as a node
Tally_AllNodes(e) == <<1, 0, 0>>

\* the triple the closure returns for an element
Tally(e) ==
    CASE e.kind = "node" -> <<1, 0, 0>>
      [] e.kind = "way" -> <<0, 1, 0>>
      [] e.kind = "relation" -> <<0, 0, 1>>

\* the reduce closure
Reduce(a, b) == <<a[1] + b[1], a[2] + b[2], a[3] + b[3]>>

\* ElementReader::from_path succeeds
OpenFile(file) ==
    /\ pc = "new" /\ ret = <<>> /\ local[1] = <<>>
    /\ pc' = "ingest"
    /\ pending' = file
    /\ local' = [local EXCEPT ![1] = <<LoadFrame(file, <<0, 0, 0>>, 0)>>]
    /\ UNCHANGED <<nodes, ways, relations, node_ref_count, node_index, way_index,
                   index_dirty, next_local_id, undo_stack, redo_stack, last,
                   n_ops, run, issued, call, ret>>

\* ElementReader::from_path fails: the error is returned by `?`
OpenFails ==
    /\ pc = "new" /\ ret = <<>> /\ local[1] = <<>>
    /\ ret' = <<LoadErr>>
    /\ UNCHANGED <<nodes, ways, relations, node_ref_count, node_index, way_index,
                   index_dirty, next_local_id, undo_stack, redo_stack, pc,
                   pending, last, n_ops, run, local, issued, call>>

\* a worker maps one element: the insert, then its triple into the reduce
MapElement(e) ==
    /\ pc = "ingest" /\ ret = <<>>
    /\ e \in pending
    /\ SetStore(InsertElement(Store, e))
    /\ pending' = pending \ {e}
    /\ local' = [local EXCEPT ![1] =
                    <<[local[1][1] EXCEPT !.counts = Reduce(@, Tally(e))]>>]
    /\ UNCHANGED <<undo_stack, redo_stack, pc, last, n_ops, run, issued, call, ret>>

\* a blob cannot be decoded: par_map_reduce yields Err, returned by `?` with
\* the elements mapped so far in the store
DecodeFails ==
    /\ pc = "ingest" /\ ret = <<>>
    /\ pc' = "failed"
    /\ ret' = <<LoadErr>>
    /\ UNCHANGED <<nodes, ways, relations, node_ref_count, node_index, way_index,
                   index_dirty, next_local_id, undo_stack, redo_stack, pending,
                   last, n_ops, run, local, issued, call>>

\* par_map_reduce yields Ok: store.rebuild_indices(), then Ok(ParseProgress)
ReduceDone ==
    /\ pc = "ingest" /\ ret = <<>>
    /\ pending = {}
    /\ SetStore(rebuild_indices(Store))
    /\ pc' = "ready"
    /\ local' = [local EXCEPT ![1] = <<[local[1][1] EXCEPT !.rebuilds = @ + 1]>>]
    /\ ret' = <<LoadOk(ParseProgress(local[1][1].counts))>>
    /\ UNCHANGED <<undo_stack, redo_stack, pending, last, n_ops, run, issued, call>>

NextLoad ==
    \/ \E file \in QueryFiles : OpenFile(file)
    \/ OpenFails
    \/ \E e \in pending : MapElement(e)
    \/ DecodeFails
    \/ ReduceDone

SpecLoad == Init /\ [][NextLoad]_vars

(***************************************************************************)
(* osm_store.rs: the methods of OsmStore called one after the other on a   *)
(* store of their own, in any order.  last is the method called last and   *)
(* the id it was given.                                                    *)
(***************************************************************************)
\* the nodes and ways handed to the store: node 5 at two places; way 10
\* with two lists of refs, one of them holding node 6 twice; way 11 over a
\* node no call inserts
StoreNodes == {OsmNode(5, 0, 0, <<>>), OsmNode(5, 2, 2, <<>>), OsmNode(6, 2, 0, <<>>)}

StoreWays ==
    {OsmWay(10, <<5, 6>>, <<>>, DEFAULT, 0, FALSE),
     OsmWay(10, <<6, 6, 5>>, <<>>, DEFAULT, 0, FALSE),
     OsmWay(11, <<7>>, <<>>, DEFAULT, 0, FALSE)}

StoreCall(op, id, s) ==
    /\ n_ops < MaxStoreCalls
    /\ n_ops' = n_ops + 1
    /\ SetStore(s)
    /\ last' = Reply(op, id)
    /\ UNCHANGED <<undo_stack, redo_stack, pc, pending, run, local, issued, call, ret>>

InsertNode(node) == StoreCall("insert_node", node.id, insert_node(Store, node))
InsertWay(way) == StoreCall("insert_way", way.id, insert_way(Store, way))
AddNodeWithIndex(node) ==
    StoreCall("add_node_with_index", node.id, add_node_with_index(Store, node))
AddWayWithIndex(way) ==
    StoreCall("add_way_with_index", way.id, add_way_with_index(Store, way))
RebuildIndices == StoreCall("rebuild_indices", 0, rebuild_indices(Store))

NextStore ==
    \/ \E node \in StoreNodes : InsertNode(node)
    \/ \E way \in StoreWays : InsertWay(way)
    \/ \E node \in StoreNodes : AddNodeWithIndex(node)
    \/ \E way \in StoreWays : AddWayWithIndex(way)
    \/ RebuildIndices

SpecStore == Init /\ [][NextStore]_vars

(***************************************************************************)
(* osm_store.rs: the methods that move the ref-counts, called one after    *)
(* the other.  ret is what the last remove_node_from_way was called with   *)
(* and returned, and the node_refs and the ref-count it found.             *)
(***************************************************************************)
\* way 10 closed on node 5, way 10 with node 5 at adjacent positions, way 11
\* sharing nodes 5 and 6
RefWays ==
    {OsmWay(10, <<5, 6, 7, 5>>, <<>>, DEFAULT, 0, FALSE),
     OsmWay(10, <<5, 5, 6>>, <<>>, DEFAULT, 0, FALSE),
     OsmWay(11, <<6, 5>>, <<>>, DEFAULT, 0, FALSE)}

\* a way through node 8 at 16 positions and then node 9
HubWay == OsmWay(12, [i \in 1..17 |-> IF i = 17 THEN 9 ELSE 8], <<>>, DEFAULT, 0, FALSE)

\* insert_way called k times with the same way: one call after k - 1 calls,
\* or two runs of k / 2 calls (the first run has left the dirty flag set)
RECURSIVE InsertWayTimes(_, _, _)
InsertWayTimes(s, way, k) ==
    IF k = 0 THEN s
    ELSE IF k % 2 = 1 THEN insert_way(InsertWayTimes(s, way, k - 1), way)
    ELSE LET half == InsertWayTimes(s, way, k \div 2)
         IN  CASE half.index_dirty -> InsertWayTimes(half, way, k \div 2)

\* the store is first filled by 4095 calls of insert_way, which leave the
\* ref-count of node 8 at 65520: one more call would take it to 65536
InsertWayRepeatedly ==
    /\ n_ops = 0
    /\ StoreCall("insert_way", 12, InsertWayTimes(Store, HubWay, 4095))

RemoveWayWithIndex(way_id) ==
    StoreCall("remove_way_with_index", way_id, remove_way_with_index(Store, way_id))

RemoveNodeFromWay(way_id, node_id) ==
    LET r == remove_node_from_way(Store, way_id, node_id)
    IN  /\ n_ops < MaxStoreCalls
        /\ n_ops' = n_ops + 1
        /\ SetStore(r.store)
        /\ last' = Reply("remove_node_from_way", way_id)
        /\ ret' = <<[way_id |-> way_id, node_id |-> node_id, indices |-> r.indices,
                     node_refs |-> IF way_id \in DOMAIN ways
                                   THEN <<ways[way_id].node_refs>> ELSE <<>>,
                     ref_count |-> IF node_id \in DOMAIN node_ref_count
                                   THEN <<node_ref_count[node_id]>> ELSE <<>>]>>
        /\ UNCHANGED <<undo_stack, redo_stack, pc, pending, run, local, issued, call>>

\* insert_node_to_way "solely to undo a removal": called with the way, the
\* node and the indices of the remove_node_from_way that came just before
InsertNodeToWay ==
    /\ last.op = "remove_node_from_way"
    /\ StoreCall("insert_node_to_way", ret[1].way_id,
                 insert_node_to_way(Store, ret[1].way_id, ret[1].node_id, ret[1].indices))

NextRefs ==
    \/ \E node \in StoreNodes : AddNodeWithIndex(node)
    \/ \E way \in RefWays \cup {HubWay} : InsertWay(way)
    \/ \E way \in RefWays : AddWayWithIndex(way)
    \/ InsertWayRepeatedly
    \/ \E way_id \in {10, 11, 12} : RemoveWayWithIndex(way_id)
    \/ \E way_id \in {10, 11, 12}, node_id \in {5, 6, 8} : RemoveNodeFromWay(way_id, node_id)
    \/ InsertNodeToWay

SpecRefs == Init /\ [][NextRefs]_vars

(***************************************************************************)
(* Properties.                                                             *)
(***************************************************************************)
\* number of positions of refs holding node id n
Occurrences(refs, n) == Cardinality({i \in 1..Len(refs) : refs[i] = n})

\* refs without its occurrences of n, the others in their order
Without(refs, n) == LET Other(x) == x # n IN SelectSeq(refs, Other)

\* number of entries of an R-tree with the given id
EntriesOf(index, id) ==
    LET es == {e \in DOMAIN index : e.id = id}
        RECURSIVE Sum(_)
        Sum(S) == IF S = {} THEN 0
                  ELSE LET e == CHOOSE x \in S : TRUE IN index[e] + Sum(S \ {e})
    IN  Sum(es)

\* (way, position) pairs at which n occurs in the ways of the store
RECURSIVE OccurrencesInWays(_, _)
OccurrencesInWays(ws, n) ==
    IF DOMAIN ws = {} THEN 0
    ELSE LET w == CHOOSE x \in DOMAIN ws : TRUE
         IN  Occurrences(ws[w].node_refs, n) + OccurrencesInWays(MapDel(ws, w), n)

AllNodeIds ==
    DOMAIN nodes \cup DOMAIN node_ref_count
    \cup UNION {SeqRange(ways[w].node_refs) : w \in DOMAIN ways}

\* C1: after k successfully executed edits followed by k undos the store
\* equals its initial state (stats, bounds, every field of every entity).
C1_UndoAllRestoresInitial ==
    (run.phase = "undo" /\ run.n_undo = run.k) => StoreView(Store) = run.base

\* C2: delete_node of a node whose deletion cascades a way, then undo, gives
\* back the pre-delete store: entity maps, ref-counts and both indices.
C2_CascadeDeleteUndoRestores ==
    (/\ last.op = "undo" /\ last.success
     /\ run.last2.op = "delete_node" /\ run.last2.success
     /\ run.last2.cascaded_way_ids # <<>>)
    => StoreData(Store) = run.snap

\* C3: a successful delete_node(n) leaves n out of the node map and node
\* index and out of every way; the referencing ways left with fewer than 2
\* refs are gone from the way map and way index, the others keep their other
\* refs in order; cascaded_way_ids is exactly the set of ways removed.
C3_DeleteNodePost(n) ==
    /\ n \notin DOMAIN nodes'
    /\ EntriesOf(node_index', n) = 0
    /\ \A w \in DOMAIN ways' : n \notin SeqRange(ways'[w].node_refs)
    /\ \A w \in DOMAIN ways :
          IF n \in SeqRange(ways[w].node_refs)
          THEN IF Len(Without(ways[w].node_refs, n)) < 2
               THEN w \notin DOMAIN ways' /\ EntriesOf(way_index', w) = 0
               ELSE w \in DOMAIN ways'
                    /\ ways'[w].node_refs = Without(ways[w].node_refs, n)
          ELSE w \in DOMAIN ways' /\ ways'[w] = ways[w]
    /\ SeqRange(last'.cascaded_way_ids) = DOMAIN ways \ DOMAIN ways'
    /\ Len(last'.cascaded_way_ids) = Cardinality(DOMAIN ways \ DOMAIN ways')

C3_DeleteNodeCascades ==
    [][(n_ops' = n_ops + 1 /\ last'.op = "delete_node" /\ last'.success)
        => C3_DeleteNodePost(last'.arg)]_vars

C3_Witness ==
    /\ last.op = "delete_node" /\ last.success
    /\ last.cascaded_way_ids # <<>>
    /\ DOMAIN ways # {}

\* C4: after k edits, k undos and k redos the store equals the state right
\* after the k-th edit, undo_count is k and redo_count is 0.
C4_RedoAllRestoresPost ==
    (run.phase = "redo" /\ run.n_redo = run.k)
    => /\ StoreView(Store) = run.post
       /\ Len(undo_stack) = run.k
       /\ Len(redo_stack) = 0
       /\ last.counts = <<run.k, 0>>

C4_Witness ==
    /\ run.phase = "redo" /\ run.n_redo = run.k /\ run.k >= 2
    /\ StoreView(Store) # run.base

\* C5: node_ref_count[n] (absent is 0) is the number of (way, position)
\* pairs at which n occurs in the ways of the store.
C5_RefCountMatchesOccurrences ==
    \A n \in AllNodeIds :
        (IF n \in DOMAIN node_ref_count THEN node_ref_count[n] ELSE 0)
        = OccurrencesInWays(ways, n)

\* C6: once the indices are built, every node of the node map has exactly
\* one node R-tree entry, at its position, and no other id has an entry.
C6_NodeIndexMatchesNodes ==
    pc = "ready" =>
        /\ \A n \in DOMAIN nodes :
              /\ EntriesOf(node_index, n) = 1
              /\ BagIn(PointEntry(n, nodes[n].lon, nodes[n].lat), node_index)
        /\ \A e \in DOMAIN node_index : e.id \in DOMAIN nodes

C6_Witness ==
    /\ pc = "ready" /\ last.op = "undo" /\ last.success
    /\ run.last2.op = "move_node" /\ run.last2.success
    /\ Cardinality(DOMAIN nodes) >= 2

\* the tight bounding box of the present nodes of a way
TightBox(w) ==
    LET present == SeqRange(ways[w].node_refs) \cap DOMAIN nodes
    IN  SpatialEntry(w,
            SetMin({nodes[n].lon : n \in present}), SetMin({nodes[n].lat : n \in present}),
            SetMax({nodes[n].lon : n \in present}), SetMax({nodes[n].lat : n \in present}))

\* C7: once the indices are built, a way with a present referenced node has
\* exactly one way R-tree entry, the tight box of its present nodes; a way
\* without present nodes, or an id that is not a way, has no entry.
C7_WayIndexMatchesWays ==
    pc = "ready" =>
        /\ \A w \in DOMAIN ways :
              IF SeqRange(ways[w].node_refs) \cap DOMAIN nodes # {}
              THEN EntriesOf(way_index, w) = 1 /\ BagIn(TightBox(w), way_index)
              ELSE EntriesOf(way_index, w) = 0
        /\ \A e \in DOMAIN way_index : e.id \in DOMAIN ways

C7_Witness ==
    /\ pc = "ready" /\ last.op = "move_node" /\ last.success
    /\ \E w \in DOMAIN ways :
          /\ last.arg \in SeqRange(ways[w].node_refs)
          /\ SeqRange(ways[w].node_refs) \ DOMAIN nodes # {}
          /\ SeqRange(ways[w].node_refs) \cap DOMAIN nodes # {}

\* C8: every way's derived fields are those of its current tags and
\* node_refs: is_area = is_area_way(tags, node_refs), render_feature and
\* layer = parse_tags(tags).
C8_DerivedFieldsCurrent ==
    \A w \in DOMAIN ways :
        /\ ways[w].is_area = is_area_way(ways[w].tags, ways[w].node_refs)
        /\ ways[w].render_feature = parse_tags(ways[w].tags).feature
        /\ ways[w].layer = parse_tags(ways[w].tags).layer

\* C9: HistoryManager::execute applies the command once; on success the
\* command is the new top of the undo stack and the redo stack is empty, on
\* failure neither stack changes.
C9_ExecutePost(command) ==
    LET r == Apply(command, Store)
    IN  /\ StoreData(Store)' = StoreData(r.store)
        /\ last'.success = r.result.success
        /\ IF r.result.success
           THEN /\ undo_stack' = Append(undo_stack, command)
                /\ Len(undo_stack') = Len(undo_stack) + 1
                /\ redo_stack' = <<>>
           ELSE UNCHANGED <<undo_stack, redo_stack>>

C9_ExecutePushesOnSuccess ==
    [][(n_ops' = n_ops + 1 /\ last'.cmd # <<>>) => C9_ExecutePost(last'.cmd[1])]_vars

C9_Witness ==
    /\ last.cmd # <<>> /\ ~last.success
    /\ undo_stack # <<>> /\ redo_stack # <<>>

\* C10: undo pops the top of the undo stack, runs its undo and on success
\* pushes it on the redo stack; redo is the mirror with apply; on an empty
\* stack they fail with "Nothing to undo" / "Nothing to redo" and change
\* nothing; the counts they report are the stack sizes after the call.
C10_UndoPost ==
    /\ last'.counts = <<Len(undo_stack'), Len(redo_stack')>>
    /\ IF undo_stack = <<>>
       THEN /\ ~last'.success
            /\ last'.message = "Nothing to undo"
            /\ UNCHANGED <<undo_stack, redo_stack>>
            /\ Store' = Store
       ELSE LET cmd == undo_stack[Len(undo_stack)]
                r == Undo(cmd, Store)
            IN  /\ Store' = r.store
                /\ last'.success = r.result.success
                /\ (last.cmd # <<>> /\ last.success) => cmd = last.cmd[1]
                /\ undo_stack' = SubSeq(undo_stack, 1, Len(undo_stack) - 1)
                /\ r.result.success => redo_stack' = Append(redo_stack, cmd)

C10_RedoPost ==
    /\ last'.counts = <<Len(undo_stack'), Len(redo_stack')>>
    /\ IF redo_stack = <<>>
       THEN /\ ~last'.success
            /\ last'.message = "Nothing to redo"
            /\ UNCHANGED <<undo_stack, redo_stack>>
            /\ Store' = Store
       ELSE LET cmd == redo_stack[Len(redo_stack)]
                r == Apply(cmd, Store)
            IN  /\ Store' = r.store
                /\ last'.success = r.result.success
                /\ (last.op = "undo" /\ last.success)
                      => undo_stack' = run.snap_undo
                /\ redo_stack' = SubSeq(redo_stack, 1, Len(redo_stack) - 1)
                /\ r.result.success => undo_stack' = Append(undo_stack, cmd)

C10_UndoRedoStacks ==
    [][(n_ops' = n_ops + 1)
        => /\ last'.op = "undo" => C10_UndoPost
           /\ last'.op = "redo" => C10_RedoPost]_vars

C10_Witness ==
    /\ last.op = "redo" /\ last.success
    /\ run.last2.op = "undo" /\ run.last2.message = "Nothing to undo"
    /\ ~run.last2.success

\* C11: generate_local_id returns -1 on the first call and a strictly smaller
\* negative id on each later call, so no two calls return the same id, with
\* calls of several threads in flight and after an AddNode was undone; the
\* id the next call would return has not been returned before.
C11_LocalIdsDistinct ==
    /\ issued # <<>> => issued[1] = -1
    /\ \A i \in 2..Len(issued) : issued[i] < issued[i - 1]
    /\ \A i, j \in 1..Len(issued) : i # j => issued[i] # issued[j]
    /\ \A i \in 1..Len(issued) : issued[i] < 0 /\ next_local_id < issued[i]

C11_Witness ==
    /\ \A t \in Threads : local[t] # <<>>
    /\ \E i \in 1..Len(redo_stack) :
           /\ redo_stack[i].kind = "AddNode"
           /\ redo_stack[i].node.id \notin DOMAIN nodes
           /\ \E t \in Threads : local[t][1] < redo_stack[i].node.id
\* the ways of the store that reference node n
WaysReferencing(n) == {w \in DOMAIN ways : n \in SeqRange(ways[w].node_refs)}

\* C12: move_node(n, p) of a node referenced by a way, then undo, leaves n
\* at its original position with a single node R-tree entry there, and each
\* way referencing n with a single way R-tree entry, its bbox of before the
\* move.
C12_MoveUndoRestores ==
    LET n == run.last2.arg
    IN  (/\ last.op = "undo" /\ last.success
         /\ run.last2.op = "move_node" /\ run.last2.success
         /\ WaysReferencing(n) # {})
        => /\ n \in DOMAIN nodes
           /\ nodes[n].lon = run.snap.nodes[n].lon
           /\ nodes[n].lat = run.snap.nodes[n].lat
           /\ EntriesOf(node_index, n) = 1
           /\ BagIn(PointEntry(n, run.snap.nodes[n].lon, run.snap.nodes[n].lat),
                    node_index)
           /\ \A w \in WaysReferencing(n) :
                 /\ EntriesOf(way_index, w) = 1
                 /\ \A e \in DOMAIN way_index :
                       e.id = w => BagIn(e, run.snap.way_index)

C12_Witness ==
    /\ last.op = "undo" /\ last.success
    /\ run.last2.op = "move_node" /\ run.last2.success
    /\ WaysReferencing(run.last2.arg) # {}
    /\ redo_stack # <<>>
    /\ LET c == redo_stack[Len(redo_stack)]
       IN  c.kind = "MoveNode" /\ <<c.new_lon, c.new_lat>> # <<c.old_lon, c.old_lat>>
\* the edit call that returned r named an id the store s does not hold
NamesMissingId(r, s) ==
    \/ r.op \in {"update_way_tags", "delete_way"} /\ r.arg \notin DOMAIN s.ways
    \/ r.op \in {"update_node_tags", "move_node", "delete_node"}
       /\ r.arg \notin DOMAIN s.nodes

\* C13: an edit naming an id the store does not hold returns success=false
\* and changes neither the entity maps, the ref-counts, the two R-trees nor
\* the undo and redo stacks; update_node_position on a missing node returns
\* false and leaves the store as it was.
C13_MissingIdChangesNothing ==
    [][/\ (n_ops' = n_ops + 1 /\ NamesMissingId(last', Store))
          => /\ ~last'.success
             /\ StoreData(Store)' = StoreData(Store)
             /\ UNCHANGED <<undo_stack, redo_stack>>
       /\ \A n \in (EditNodeIds \cup {8}) \ DOMAIN nodes :
             update_node_position(Store, n, 4, 2) = [ok |-> FALSE, store |-> Store]]_vars

C13_Witness ==
    /\ NamesMissingId(last, Store) /\ ~last.success
    /\ last.op = "delete_node"
    /\ undo_stack # <<>> /\ redo_stack # <<>>
    /\ DOMAIN ways # {}
\* C14: the LOD policy of a zoom is the row of the table for the integer
\* part of the zoom: nodes are shown only from zoom 18; min ref_count is 2
\* for 18-19 and 0 from 20; max nodes is 0 below 18, 50,000 for 18-19,
\* 100,000 for 20-21 and 300,000 from 22; max ways is 5,000 for 0-8, 15,000
\* for 9-11, 40,000 for 12-14, 80,000 for 15-17, 150,000 for 18-21, 250,000
\* for 22-24 and 400,000 from 25.
C14_LodPolicyMatchesTable ==
    (ret # <<>> /\ call[1].fn = "lod") =>
        LET zoom == call[1].zoom
            lod == ret[1].node_lod
            In(a, b) == a * ZoomScale <= zoom /\ zoom < (b + 1) * ZoomScale
        IN  /\ lod.show_nodes <=> zoom >= 18 * ZoomScale
            /\ In(18, 19) => lod.min_ref_count = 2
            /\ zoom >= 20 * ZoomScale => lod.min_ref_count = 0
            /\ zoom < 18 * ZoomScale => lod.max_nodes = 0
            /\ In(18, 19) => lod.max_nodes = 50000
            /\ In(20, 21) => lod.max_nodes = 100000
            /\ zoom >= 22 * ZoomScale => lod.max_nodes = 300000
            /\ In(0, 8) => ret[1].max_ways = 5000
            /\ In(9, 11) => ret[1].max_ways = 15000
            /\ In(12, 14) => ret[1].max_ways = 40000
            /\ In(15, 17) => ret[1].max_ways = 80000
            /\ In(18, 21) => ret[1].max_ways = 150000
            /\ In(22, 24) => ret[1].max_ways = 250000
            /\ zoom >= 25 * ZoomScale => ret[1].max_ways = 400000

C14_Witness ==
    /\ ret # <<>> /\ call[1].fn = "lod" /\ call[1].zoom = 199
    /\ ret[1].node_lod.min_ref_count = 2 /\ ret[1].max_ways = 150000
\* a viewport query has returned
Queried == ret # <<>> /\ call # <<>> /\ call[1].fn = "query_viewport_full"

RefCountOf(id) == IF id \in DOMAIN node_ref_count THEN node_ref_count[id] ELSE 0

\* the positions of the node range query whose node passes the filter of
\* the zoom
Passed ==
    IF call[1].node_lod.show_nodes
    THEN {k \in 1..Len(call[1].node_entries) :
            /\ call[1].node_entries[k].id \in DOMAIN nodes
            /\ RefCountOf(call[1].node_entries[k].id) >= call[1].node_lod.min_ref_count}
    ELSE {}

\* C15: truncated is set exactly when the nodes that passed the
\* min_ref_count filter are more than max_nodes or the way ids of the range
\* query are more than max_ways; the result holds at most max_nodes nodes,
\* and its line ways and polygons together are at most max_ways; the call
\* still answers, with the truncated field of the header set to the flag.
C15_TruncatedIffOverCap ==
    Queried =>
        LET c == call[1]
            r == ret[1].result
        IN  /\ r.truncated <=> (\/ Cardinality(Passed) > c.node_lod.max_nodes
                                \/ Len(c.way_entries) > c.max_ways)
            /\ Len(r.nodes) <= c.node_lod.max_nodes
            /\ Len(r.way_ids) + Len(r.polygons) <= c.max_ways
            /\ ret[1].response[4] = Field("u32", IF r.truncated THEN 1 ELSE 0)

C15_Witness ==
    /\ Queried /\ ret[1].result.truncated
    /\ Cardinality(Passed) <= call[1].node_lod.max_nodes
    /\ Len(call[1].way_entries) > call[1].max_ways
    /\ ret[1].result.polygons # <<>>

\* C16: the nodes of a result all have a ref_count of min_ref_count or
\* more, are in non-increasing ref_count order with equal counts in the
\* order of the range query, and a node dropped by the truncation has no
\* greater ref_count than any node kept.
C16_NodesByPriority ==
    Queried =>
        LET c == call[1]
            ns == ret[1].result.nodes
            At(id) == CHOOSE k \in 1..Len(c.node_entries) : c.node_entries[k].id = id
            kept == {ns[i].id : i \in 1..Len(ns)}
        IN  /\ \A i \in 1..Len(ns) :
                  /\ ns[i].ref_count = RefCountOf(ns[i].id)
                  /\ ns[i].ref_count >= c.node_lod.min_ref_count
                  /\ At(ns[i].id) \in Passed
            /\ \A i, j \in 1..Len(ns) :
                  i < j => /\ ns[i].ref_count >= ns[j].ref_count
                           /\ ns[i].ref_count = ns[j].ref_count
                              => At(ns[i].id) < At(ns[j].id)
            /\ \A k \in Passed :
                  c.node_entries[k].id \notin kept
                  => \A i \in 1..Len(ns) :
                        ns[i].ref_count >= RefCountOf(c.node_entries[k].id)

C16_Witness ==
    /\ Queried /\ ret[1].result.truncated
    /\ Len(ret[1].result.nodes) = 2
    /\ Cardinality(Passed) > 2
    /\ ret[1].result.nodes[1].ref_count > ret[1].result.nodes[2].ref_count
    /\ \E k \in Passed :
          /\ RefCountOf(call[1].node_entries[k].id) = ret[1].result.nodes[2].ref_count
          /\ call[1].node_entries[k].id # ret[1].result.nodes[2].id

\* reading a response back, as the format lays it out: count way records
\* from field pos on; next is the field after the last one read
RECURSIVE DecodeWayRecords(_, _, _)
DecodeWayRecords(buf, pos, count) ==
    IF count = 0 THEN [records |-> <<>>, next |-> pos]
    ELSE LET point_count == buf[pos + 2].value
             rest == DecodeWayRecords(buf, pos + 3 + 2 * point_count, count - 1)
         IN  [records |-> <<[way_id |-> buf[pos].value,
                             render_feature |-> buf[pos + 1].value,
                             point_count |-> point_count,
                             points |-> [k \in 1..point_count |->
                                            <<buf[pos + 1 + 2 * k].value,
                                              buf[pos + 2 + 2 * k].value>>]]>>
                          \o rest.records,
              next |-> rest.next]

\* the point counts of count rings from field pos on
RECURSIVE DecodeRings(_, _, _)
DecodeRings(buf, pos, count) ==
    IF count = 0 THEN [point_counts |-> <<>>, next |-> pos]
    ELSE LET rest == DecodeRings(buf, pos + 1 + 2 * buf[pos].value, count - 1)
         IN  [point_counts |-> <<buf[pos].value>> \o rest.point_counts,
              next |-> rest.next]

RECURSIVE DecodePolygonRecords(_, _, _)
DecodePolygonRecords(buf, pos, count) ==
    IF count = 0 THEN [records |-> <<>>, next |-> pos]
    ELSE LET rings == DecodeRings(buf, pos + 3, buf[pos + 2].value)
             rest == DecodePolygonRecords(buf, rings.next, count - 1)
         IN  [records |-> <<[way_id |-> buf[pos].value,
                             render_feature |-> buf[pos + 1].value,
                             ring_point_counts |-> rings.point_counts]>>
                          \o rest.records,
              next |-> rest.next]

\* header, node records of six fields each, total_ways and the way records,
\* total_polygons and the polygon records
Decode(buf) ==
    LET node_count == buf[1].value
        ways_at == 4 + 6 * node_count + 1
        ws == DecodeWayRecords(buf, ways_at + 1, buf[ways_at].value)
        ps == DecodePolygonRecords(buf, ws.next + 1, buf[ws.next].value)
    IN  [node_count |-> node_count, way_count |-> buf[2].value,
         polygon_count |-> buf[3].value, truncated |-> buf[4].value,
         total_ways |-> buf[ways_at].value, way_records |-> ws.records,
         total_polygons |-> buf[ws.next].value, polygon_records |-> ps.records,
         next |-> ps.next]

RECURSIVE SumOf(_)
SumOf(ns) == IF ns = <<>> THEN 0 ELSE Head(ns) + SumOf(Tail(ns))

\* the response of a query on a store as new() leaves it
OnNewStore == Queried /\ pc = "new" /\ n_ops = 0

\* the size formula and the header counts of the response returned
SizeAsLaidOut ==
    LET buf == ret[1].response
        d == Decode(buf)
        way_bytes == SumOf([i \in 1..Len(d.way_records) |->
                               14 + 16 * d.way_records[i].point_count])
        RingBytes(qs) == SumOf([j \in 1..Len(qs) |-> 4 + 16 * qs[j]])
        polygon_bytes ==
            SumOf([i \in 1..Len(d.polygon_records) |->
                      12 + RingBytes(d.polygon_records[i].ring_point_counts)])
    IN  /\ d.next = Len(buf) + 1
        /\ d.node_count = Len(ret[1].result.nodes)
        /\ d.way_count = d.total_ways
        /\ d.way_count = Len(d.way_records)
        /\ d.polygon_count = d.total_polygons
        /\ d.polygon_count = Len(ret[1].result.polygons)
        /\ ByteLen(buf) = 16 + 32 * d.node_count + 4 + way_bytes
                          + 4 + polygon_bytes

HeaderAndTotalsZero ==
    ret[1].response = <<Field("u32", 0), Field("u32", 0), Field("u32", 0),
                        Field("u32", 0), Field("u32", 0), Field("u32", 0)>>

ZOrderOf(way_id) == calculate_z_order(ways[way_id].render_feature, ways[way_id].layer)

\* the place of an id in the sequence the encoder was given
PlaceIn(ids, id) == CHOOSE k \in 1..Len(ids) : ids[k] = id

\* records in non-decreasing z_order, equal z_order in the order given
InZOrder(records, given) ==
    /\ \A i \in 1..Len(records) :
          /\ records[i].way_id \in DOMAIN ways
          /\ \E k \in 1..Len(given) : given[k] = records[i].way_id
    /\ \A i, j \in 1..Len(records) :
          i < j => /\ ZOrderOf(records[i].way_id) <= ZOrderOf(records[j].way_id)
                   /\ ZOrderOf(records[i].way_id) = ZOrderOf(records[j].way_id)
                      => PlaceIn(given, records[i].way_id)
                         < PlaceIn(given, records[j].way_id)

\* C18: the way records of a response are in non-decreasing z_order, the
\* z_order of a way being computed from its render_feature and layer, and
\* ways of equal z_order are in the order their ids were given to the
\* encoder; the polygon records are ordered in the same way.
C18_RecordsInZOrder ==
    Queried =>
        LET d == Decode(ret[1].response)
            polygons == ret[1].result.polygons
        IN  /\ InZOrder(d.way_records, ret[1].result.way_ids)
            /\ InZOrder(d.polygon_records,
                        [i \in 1..Len(polygons) |-> polygons[i].way_id])

\* three way records: the way given second comes first, the two of equal
\* z_order follow in the order given
C18_Witness ==
    /\ Queried
    /\ ret[1].result.way_ids = <<12, 11, 10>>
    /\ LET d == Decode(ret[1].response)
       IN  [i \in 1..Len(d.way_records) |-> d.way_records[i].way_id] = <<11, 12, 10>>

\* the referenced nodes of a way that are in the store, in order
PresentRefs(way_id) == SelectSeq(ways[way_id].node_refs, LAMBDA n : n \in DOMAIN nodes)

\* a way the encoder can draw: in the store, two present nodes or more
Drawable(way_id) == way_id \in DOMAIN ways /\ Len(PresentRefs(way_id)) >= 2

\* the way section written for the ids given: total is its leading count
WaysAsGiven(given, total, records) ==
    /\ total = Cardinality({k \in 1..Len(given) : Drawable(given[k])})
    /\ Len(records) = total
    /\ \A k \in 1..Len(given) :
          Drawable(given[k]) <=> \E i \in 1..Len(records) :
                                    records[i].way_id = given[k]
    /\ \A i \in 1..Len(records) :
          /\ records[i].point_count >= 2
          /\ records[i].way_id \in DOMAIN ways
          /\ LET refs == PresentRefs(records[i].way_id)
             IN  records[i].points =
                     [k \in 1..Len(refs) |->
                         lonlat_to_mercator(nodes[refs[k]].lon, nodes[refs[k]].lat)]

Encoded == ret # <<>> /\ call # <<>> /\ call[1].fn = "encode_ways_geometry"

\* C19: the way encoder writes, for each way, the points of the referenced
\* nodes that are in the store and skips the others; a way id that is not
\* in the store, or fewer than two of whose referenced nodes are present,
\* gets no record and is counted neither in total_ways nor in the way_count
\* of the header; every way record has a point_count of two or more.
C19_UndrawableWaysOmitted ==
    /\ Encoded =>
          LET buf == ret[1].way_data
              ws == DecodeWayRecords(buf, 2, buf[1].value)
          IN  /\ ws.next = Len(buf) + 1
              /\ WaysAsGiven(call[1].way_ids, buf[1].value, ws.records)
    /\ Queried =>
          LET d == Decode(ret[1].response)
          IN  /\ WaysAsGiven(ret[1].result.way_ids, d.total_ways, d.way_records)
              /\ d.way_count = d.total_ways

\* ids given: one not in the store, one with a single present node, one
\* with three of its four nodes present; the last alone is written
C19_Witness ==
    /\ Encoded
    /\ call[1].way_ids = <<13, 11, 10>>
    /\ 13 \notin DOMAIN ways
    /\ 11 \in DOMAIN ways /\ Len(PresentRefs(11)) = 1
    /\ 10 \in DOMAIN ways /\ Len(ways[10].node_refs) = 4 /\ Len(PresentRefs(10)) = 3
    /\ ret[1].way_data[1] = Field("u32", 1)
    /\ ret[1].way_data[4] = Field("u32", 3)

BaseTypes ==
    {DEFAULT, HIGHWAY_MAJOR, HIGHWAY_MINOR, HIGHWAY_ROAD, HIGHWAY_PATH,
     HIGHWAY_STEPS, RAILWAY_MAIN, RAILWAY_LIGHT, WATERWAY_RIVER, WATERWAY_STREAM,
     WATERWAY_CANAL, BUILDING, NATURAL_WOOD, NATURAL_WATER, NATURAL_GRASS, LANDUSE,
     BOUNDARY}

\* C20: for every base category and every layer, the feature classified
\* with the TUNNEL flag has a strictly smaller z_order than the same feature
\* without flags, and that one a strictly smaller z_order than the same
\* feature with the BRIDGE flag; so for highway=primary: with bridge=yes the
\* BRIDGE flag is set and the z_order is above that of the plain road, which
\* is above that of the road with tunnel=yes.
C20_TunnelBelowPlainBelowBridge ==
    (ret # <<>> /\ call[1].fn = "z_order") =>
        LET r == ret[1]
        IN  /\ extract(r.normal.feature) \in BaseTypes
            /\ r.normal.layer \in -5..5
            /\ ~has(r.normal.feature, BRIDGE) /\ ~has(r.normal.feature, TUNNEL)
            /\ r.bridge.feature = r.normal.feature + BRIDGE
            /\ has(r.bridge.feature, BRIDGE)
            /\ r.tunnel.feature = r.normal.feature + TUNNEL
            /\ has(r.tunnel.feature, TUNNEL)
            /\ r.bridge.layer = r.normal.layer /\ r.tunnel.layer = r.normal.layer
            /\ r.tunnel.z_order < r.normal.z_order
            /\ r.normal.z_order < r.bridge.z_order

\* the example of the primary road
C20_Witness ==
    /\ ret # <<>> /\ call[1].fn = "z_order"
    /\ call[1].base = <<<<"highway", "primary">>>> /\ call[1].layer = <<>>
    /\ ret[1].normal.feature = HIGHWAY_MAJOR
    /\ ret[1].bridge.feature = HIGHWAY_MAJOR + BRIDGE
    /\ ret[1].tunnel.z_order = -25
    /\ ret[1].normal.z_order = 15
    /\ ret[1].bridge.z_order = 55

\* C21: of two classified features with layers in -5..5, the one on the
\* lower layer has the strictly smaller z_order, whatever their base
\* categories and flags.
C21_LayerDominates ==
    (ret # <<>> /\ call[1].fn = "z_order_pair") =>
        LET a == ret[1].a
            b == ret[1].b
        IN  (a.layer \in -5..5 /\ b.layer \in -5..5 /\ a.layer < b.layer)
            => a.z_order < b.z_order

\* a primary road on a bridge on layer 0 and a river in a tunnel on layer 1:
\* the road of the lower layer has the greater z_order
C21_Witness ==
    /\ ret # <<>> /\ call[1].fn = "z_order_pair"
    /\ call[1].a = <<<<"highway", "primary">>, <<"bridge", "yes">>, <<"layer", "0">>>>
    /\ call[1].b = <<<<"waterway", "river">>, <<"tunnel", "yes">>, <<"layer", "1">>>>
    /\ ret[1].a.layer = 0 /\ ret[1].b.layer = 1
    /\ ret[1].a.z_order = 55 /\ ret[1].b.z_order = 30

\* the category keys from the highest priority to the lowest
CategoryKeys ==
    <<"waterway", "natural", "railway", "highway", "building", "landuse", "boundary">>

\* the constants a category maps its values to; the last of each is the one
\* for a value it does not know (for natural that is DEFAULT)
CategoryConstants(key) ==
    CASE key = "waterway" -> {WATERWAY_RIVER, WATERWAY_CANAL, WATERWAY_STREAM}
      [] key = "natural" -> {NATURAL_WATER, NATURAL_WOOD, NATURAL_GRASS, DEFAULT}
      [] key = "railway" -> {RAILWAY_LIGHT, RAILWAY_MAIN}
      [] key = "highway" -> {HIGHWAY_MAJOR, HIGHWAY_MINOR, HIGHWAY_PATH,
                             HIGHWAY_STEPS, HIGHWAY_ROAD}
      [] key = "building" -> {BUILDING}
      [] key = "landuse" -> {LANDUSE}
      [] key = "boundary" -> {BOUNDARY}

\* the positions of a key in a tag list
TagsOfKey(tags, key) == {i \in 1..Len(tags) : tags[i][1] = key}

\* a category is present: its key occurs; for building and boundary, with a
\* value other than "no" at some occurrence
PresentAnywhere(tags, key) ==
    \E i \in TagsOfKey(tags, key) :
        key \in {"building", "boundary"} => tags[i][2] # "no"

\* the same, with the last occurrence of building and boundary deciding
PresentAtLast(tags, key) ==
    /\ TagsOfKey(tags, key) # {}
    /\ key \in {"building", "boundary"}
       => \A i \in TagsOfKey(tags, key) :
             (\A j \in TagsOfKey(tags, key) : j <= i) => tags[i][2] # "no"

\* the low byte is a constant of the first category of the priority list
\* that is present, DEFAULT when none is
LowByteByPriority(low, present(_)) ==
    IF \E k \in 1..Len(CategoryKeys) : present(CategoryKeys[k])
    THEN LET top == CHOOSE k \in 1..Len(CategoryKeys) :
                       /\ present(CategoryKeys[k])
                       /\ \A j \in 1..(k - 1) : ~present(CategoryKeys[j])
         IN  low \in CategoryConstants(CategoryKeys[top])
    ELSE low = DEFAULT

\* the tag list in every order
Reorderings(tags) ==
    {[i \in 1..Len(tags) |-> tags[q[i]]] : q \in Orderings(1..Len(tags))}

KeysDistinct(tags) == \A i, j \in 1..Len(tags) : tags[i][1] = tags[j][1] => i = j

Parsed == ret # <<>> /\ call # <<>> /\ call[1].fn = "parse_tags"

\* C22: parse_tags answers for every tag list; the low byte of the feature
\* is a constant of the highest category of waterway > natural > railway >
\* highway > building > landuse > boundary that is present, building and
\* boundary counting as present when the last tag of that key has a value
\* other than "no"; a value the category does not know gives the category's
\* default and never a lower category; and a list of tags with distinct
\* keys gives the same feature in every order.
C22_CategoryByPriority ==
    Parsed =>
        LET tags == call[1].tags
            Present(key) == PresentAtLast(tags, key)
        IN  /\ ret[1] = parse_tags(tags)
            /\ LowByteByPriority(extract(ret[1].feature), Present)
            /\ KeysDistinct(tags)
               => \A t \in Reorderings(tags) : parse_tags(t) = ret[1]

\* C22 as stated: building and boundary count as present when the key has a
\* value other than "no", and any tag list gives the same low byte in every
\* order.
C22_AsStated ==
    Parsed =>
        LET tags == call[1].tags
            Present(key) == PresentAnywhere(tags, key)
        IN  /\ ret[1] = parse_tags(tags)
            /\ LowByteByPriority(extract(ret[1].feature), Present)
            /\ \A t \in Reorderings(tags) :
                  extract(parse_tags(t).feature) = extract(ret[1].feature)

\* natural with a value it does not know, ahead of a known highway and a
\* building, the tag of the highest category last
C22_Witness ==
    /\ Parsed
    /\ call[1].tags = <<<<"building", "yes">>, <<"highway", "primary">>,
                        <<"natural", "peak">>>>
    /\ ret[1].feature = DEFAULT

\* the number a layer value denotes: <<n>> for a numeral, <<>> for other text
NumberOf(value) ==
    IF \E p \in NumeralTable : p[1] = value
    THEN <<(CHOOSE p \in NumeralTable : p[1] = value)[2]>>
    ELSE <<>>

\* C23: the layer parse_tags gives lies in -5..5: it is 0 without a layer
\* tag or with a value that is not a number, and a number outside the range
\* gives the nearest bound.
C23_LayerClamped ==
    (ret # <<>> /\ call[1].fn = "z_order") =>
        LET layer == ret[1].normal.layer
            tag == call[1].layer
        IN  /\ layer \in -5..5
            /\ (tag = <<>> \/ NumberOf(tag[1][2]) = <<>>) => layer = 0
            /\ (tag # <<>> /\ NumberOf(tag[1][2]) # <<>>)
               => layer = Clamp(NumberOf(tag[1][2])[1], -5, 5)

\* layer=200, a number above the range, gives layer 0
C23_Witness ==
    /\ ret # <<>> /\ call[1].fn = "z_order"
    /\ call[1].layer = <<<<"layer", "200">>>>
    /\ ret[1].normal.layer = 0

\* a tag that implies closed geometry, by the rule set
ImpliesArea(key, value) ==
    \/ key = "area" /\ value = "yes"
    \/ /\ key \in {"building", "landuse", "leisure", "amenity", "shop", "tourism",
                   "man_made"}
       /\ value # "no"
    \/ key = "natural" /\ value \notin {"no", "coastline", "tree_row"}
    \/ key = "waterway" /\ value \in {"riverbank", "dock", "boatyard"}

\* C24: is_area_way is true exactly when node_refs has four entries or more
\* with the first equal to the last and some tag implies closed geometry:
\* area=yes, one of building, landuse, leisure, amenity, shop, tourism,
\* man_made with a value other than no, natural with a value other than no,
\* coastline, tree_row, or waterway of riverbank, dock, boatyard; so a
\* closed highway without area=yes is no area and an unclosed way never is.
C24_AreaIffClosedAndTagged ==
    (ret # <<>> /\ call[1].fn = "is_area_way") =>
        LET tags == call[1].tags
            refs == call[1].node_refs
        IN  ret[1].is_area <=>
                /\ Len(refs) >= 4
                /\ refs[1] = refs[Len(refs)]
                /\ \E i \in 1..Len(tags) : ImpliesArea(tags[i][1], tags[i][2])

\* a closed way tagged area=no, building=yes in this order is no area
C24_Witness ==
    /\ ret # <<>> /\ call[1].fn = "is_area_way"
    /\ call[1].tags = <<<<"area", "no">>, <<"building", "yes">>>>
    /\ call[1].node_refs = <<1, 2, 3, 4, 1>>
    /\ ~ret[1].is_area

Assembled == ret # <<>> /\ call # <<>> /\ call[1].fn = "assemble_from_relation"

\* the way members of the relation with one of the roles that are in the
\* store with two refs or more, as their node_refs in member order
RoleSegments(relation_id, roles) ==
    LET ms == SelectSeq(relations[relation_id].members,
                        LAMBDA m : /\ m.member_type = "Way"
                                   /\ m.role \in roles
                                   /\ m.ref_id \in DOMAIN ways
                                   /\ Len(ways[m.ref_id].node_refs) >= 2)
    IN  [i \in 1..Len(ms) |-> ways[ms[i].ref_id].node_refs]

\* the segments joined in the order q, segment i back to front when i is in
\* flipped, with the node shared by two neighbours written once
RECURSIVE Joined(_, _, _, _)
Joined(segments, q, flipped, i) ==
    IF i > Len(q) THEN <<>>
    ELSE LET seg == IF q[i] \in flipped THEN ReverseSeq(segments[q[i]])
                    ELSE segments[q[i]]
         IN  (IF i = 1 THEN seg ELSE Tail(seg)) \o Joined(segments, q, flipped, i + 1)

\* q and flipped join all the segments into one closed chain: neighbours
\* share an end node, the last ends where the first begins, and no other
\* node occurs twice
ClosedChain(segments, q, flipped) ==
    LET End(i, at_tail) ==
            LET seg == segments[q[i]]
            IN  IF (q[i] \in flipped) = at_tail THEN seg[1] ELSE seg[Len(seg)]
        ring == Joined(segments, q, flipped, 1)
    IN  /\ \A i \in 1..(Len(q) - 1) : End(i, TRUE) = End(i + 1, FALSE)
        /\ End(Len(q), TRUE) = End(1, FALSE)
        /\ Len(ring) >= 4
        /\ \A i, j \in 1..(Len(ring) - 1) : ring[i] = ring[j] => i = j

ChainsOf(segments) ==
    {c \in Orderings(1..Len(segments)) \X SUBSET (1..Len(segments)) :
        ClosedChain(segments, c[1], c[2])}

\* the projection of the nodes of a ring that is wholly in the store
Projected(ring) ==
    [i \in 1..Len(ring) |-> lonlat_to_mercator(nodes[ring[i]].lon, nodes[ring[i]].lat)]

\* C25: for a relation tagged type=multipolygon whose outer way members
\* join at shared end nodes into one closed chain, in whatever order they
\* are listed and whichever of them is stored back to front,
\* assemble_from_relation returns a polygon whose outer ring goes through
\* the nodes of the chain in order, every shared end node once and the
\* first node again at the end.
C25_ChainStitchedToRing ==
    (/\ Assembled
     /\ call[1].relation_id \in DOMAIN relations
     /\ \E i \in 1..Len(relations[call[1].relation_id].tags) :
           relations[call[1].relation_id].tags[i] = <<"type", "multipolygon">>)
    => LET segments == RoleSegments(call[1].relation_id, {"outer", ""})
       IN  (/\ segments # <<>>
            /\ ChainsOf(segments) # {}
            /\ \A i \in 1..Len(segments) : \A k \in 1..Len(segments[i]) :
                  segments[i][k] \in DOMAIN nodes)
           => /\ ret[1].polygon # <<>>
              /\ \E c \in ChainsOf(segments) :
                    ret[1].polygon[1].rings[1]
                        = Projected(Joined(segments, c[1], c[2], 1))
              /\ LET ring == ret[1].polygon[1].rings[1]
                 IN  /\ ring[1] = ring[Len(ring)]
                     /\ \A i, j \in 1..(Len(ring) - 1) : ring[i] = ring[j] => i = j

\* the ways listed as 33, 31, 32 with 31 and 32 stored back to front: the
\* ring starts with way 33 as stored and runs 4, 5, 1, 2, 3, 4
C25_Witness ==
    /\ Assembled /\ call[1].relation_id = 40 /\ pc = "ready"
    /\ 33 \in DOMAIN ways /\ ways[33].node_refs = <<4, 5, 1>>
    /\ 31 \in DOMAIN ways /\ ways[31].node_refs = <<3, 2, 1>>
    /\ 32 \in DOMAIN ways /\ ways[32].node_refs = <<4, 3>>
    /\ relations[40].members[1].ref_id = 33
    /\ relations[40].members[2].ref_id = 31
    /\ ret[1].polygon # <<>>
    /\ ret[1].polygon[1].rings = <<Projected(<<4, 5, 1, 2, 3, 4>>)>>

\* some of the segments, in some order and orientation, join into a closed
\* chain
CanClose(segments) ==
    \E picked \in SUBSET (1..Len(segments)) \ {{}} :
        \E q \in Orderings(picked), flipped \in SUBSET picked :
            ClosedChain(segments, q, flipped)

\* every point of the ring is the projection of a present node of the
\* segments
RingOver(ring, segments) ==
    \A k \in 1..Len(ring) :
        \E i \in 1..Len(segments) : \E j \in 1..Len(segments[i]) :
            /\ segments[i][j] \in DOMAIN nodes
            /\ ring[k] = Projected(<<segments[i][j]>>)[1]

IsMultipolygon(relation_id) ==
    \E i \in 1..Len(relations[relation_id].tags) :
        relations[relation_id].tags[i] = <<"type", "multipolygon">>

\* C26: assemble_from_relation returns no polygon for a relation that does
\* not exist, for one not tagged type=multipolygon, and for one none of
\* whose outer (or empty-role) way members close into a ring; in a polygon
\* it returns, the rings stitched from the outer members all come before
\* the rings stitched from the inner members, and members that are no ways
\* or have another role add nothing.
C26_NoPolygonOrOuterFirst ==
    Assembled =>
        LET id == call[1].relation_id
            polygon == ret[1].polygon
        IN  IF id \notin DOMAIN relations THEN polygon = <<>>
            ELSE IF ~IsMultipolygon(id) THEN polygon = <<>>
            ELSE LET outer == RoleSegments(id, {"outer", ""})
                     inner == RoleSegments(id, {"inner"})
                     AllPresent(segments) ==
                         \A i \in 1..Len(segments) : \A j \in 1..Len(segments[i]) :
                             segments[i][j] \in DOMAIN nodes
                 IN  /\ ~CanClose(outer) => polygon = <<>>
                     /\ polygon # <<>> =>
                           LET rings == polygon[1].rings
                           IN  /\ \E k \in 1..Len(rings) :
                                     /\ \A i \in 1..k : RingOver(rings[i], outer)
                                     /\ \A i \in (k + 1)..Len(rings) :
                                           RingOver(rings[i], inner)
                               /\ (CanClose(inner) /\ AllPresent(inner))
                                  => \E i \in 1..Len(rings) : RingOver(rings[i], inner)

\* the square with the hole: the outer ring first although the inner way is
\* listed first, and no ring from way 33
C26_Witness ==
    /\ Assembled /\ call[1].relation_id = 40 /\ pc = "ready"
    /\ 7 \in DOMAIN nodes /\ relations[40].members[1].role = "inner"
    /\ ret[1].polygon # <<>>
    /\ ret[1].polygon[1].rings = <<Projected(<<1, 2, 3, 4, 1>>),
                                   Projected(<<5, 6, 7, 5>>)>>

\* C27: every ring of every polygon the assembler produces and the response
\* carries in its polygons section is closed: four points or more, the
\* first equal to the last, also when referenced nodes are missing from the
\* store and skipped.
C27_RingsClosed ==
    Queried =>
        LET polygons == ret[1].result.polygons
            d == Decode(ret[1].response)
        IN  /\ d.polygon_count = Len(polygons)
            /\ \A i \in 1..Len(polygons) :
                  /\ Len(d.polygon_records[i].ring_point_counts) = Len(polygons[i].rings)
                  /\ \A j \in 1..Len(polygons[i].rings) :
                        LET ring == polygons[i].rings[j]
                        IN  /\ Len(ring) >= 4
                            /\ ring[1] = ring[Len(ring)]

\* the clipped building: a polygon is sent whose one ring has the four
\* points of nodes 6, 7, 8, 9 and ends away from where it starts
C27_Witness ==
    /\ Queried /\ pc = "ready"
    /\ 10 \in DOMAIN ways /\ ways[10].node_refs = <<5, 6, 7, 8, 9, 5>>
    /\ 5 \notin DOMAIN nodes
    /\ Len(ret[1].result.polygons) = 1
    /\ ret[1].result.polygons[1].rings = <<Projected(<<6, 7, 8, 9>>)>>
    /\ Decode(ret[1].response).polygon_records[1].ring_point_counts = <<4>>

Picked == ret # <<>> /\ call # <<>> /\ call[1].fn = "pick_feature"

\* the squared Mercator distance from the click to a stored node, and to the
\* nearest segment of a stored way that has both ends in the store
NodeDistSq(id) ==
    LET m == lonlat_to_mercator(nodes[id].lon, nodes[id].lat)
    IN  Quotient(SumOfSquares(m[1] - call[1].merc_x, m[2] - call[1].merc_y), Wide(1))

SegmentDistSqs(id) ==
    LET refs == ways[id].node_refs
    IN  {LET m1 == lonlat_to_mercator(nodes[refs[i]].lon, nodes[refs[i]].lat)
             m2 == lonlat_to_mercator(nodes[refs[i + 1]].lon, nodes[refs[i + 1]].lat)
         IN  point_to_segment_distance_sq(call[1].merc_x, call[1].merc_y,
                                          m1[1], m1[2], m2[1], m2[2]) :
         i \in {k \in 1..(Len(refs) - 1) :
                    refs[k] \in DOMAIN nodes /\ refs[k + 1] \in DOMAIN nodes}}

WithinTolerance(dist_sq) ==
    QuotientLeq(dist_sq, Quotient(SumOfSquares(call[1].tolerance_meters, 0), Wide(1)))

\* the indexed nodes pick_feature may return at the zoom of the call
CandidateNodes ==
    {id \in DOMAIN nodes :
        /\ \E e \in DOMAIN node_index : e.id = id
        /\ call[1].zoom >= 180
        /\ (RefCountOf(id) >= 2 \/ call[1].zoom >= 200)}

NodesInReach == {id \in CandidateNodes : WithinTolerance(NodeDistSq(id))}

\* the ways of two node refs or more with an indexed box around the click and
\* a segment within the tolerance
WaysInReach ==
    LET click == mercator_to_lonlat(call[1].merc_x, call[1].merc_y)
    IN  {id \in DOMAIN ways :
            /\ Len(ways[id].node_refs) >= 2
            /\ \E e \in DOMAIN way_index :
                  /\ e.id = id
                  /\ e.min_lon <= click[1] /\ click[1] <= e.max_lon
                  /\ e.min_lat <= click[2] /\ click[2] <= e.max_lat
            /\ \E d \in SegmentDistSqs(id) : WithinTolerance(d)}

\* C28: pick_feature considers a node only at zoom >= 18 and with
\* ref_count >= 2 or zoom >= 20; when such a node lies within the tolerance
\* it returns a closest one, whatever the ways; otherwise a closest way
\* within the tolerance among the ways of two refs or more whose indexed box
\* contains the click; otherwise None.
C28_ClosestNodeThenClosestWay ==
    Picked =>
        LET picked == ret[1].picked
        IN  /\ picked.type = "Node" => picked.id \in CandidateNodes
            /\ IF NodesInReach # {}
               THEN /\ picked.type = "Node" /\ picked.id \in NodesInReach
                    /\ \A n \in NodesInReach :
                          QuotientLeq(NodeDistSq(picked.id), NodeDistSq(n))
               ELSE IF WaysInReach # {}
               THEN /\ picked.type = "Way" /\ picked.id \in WaysInReach
                    /\ \A w \in WaysInReach : \A d \in SegmentDistSqs(w) :
                          \E c \in SegmentDistSqs(picked.id) : QuotientLeq(c, d)
               ELSE picked = PickedFeature("None", 0)

\* a click on the road 10, one degree of longitude from its ends 5 and 6,
\* with the Mercator length of that degree as the tolerance, at zoom 18: both
\* ends are candidates at exactly the tolerance, and the road is returned
C28_Witness ==
    /\ Picked /\ pc = "ready"
    /\ call[1].zoom = 180 /\ call[1].tolerance_meters = MercXPerDeg
    /\ call[1].merc_x = MercXPerDeg /\ call[1].merc_y = 0
    /\ NodesInReach = {5, 6}
    /\ ret[1].picked = PickedFeature("Way", 10)

\* the threads with a live guard of the Mutex
Holders(mutex) == {t \in Threads : InCall(t) /\ mutex \in local[t][1].holds}

\* thread t waits in lock() for a Mutex a guard of which is alive
Blocked(t) ==
    /\ InCall(t)
    /\ local[t][1].at \in {"lock_undo", "lock_redo"}
    /\ Holders(MutexAt(local[t][1].at)) # {}

\* each stack has its own Mutex, held by one thread at most, and a command
\* runs in a frame without guards
GuardsExclusive ==
    /\ \A mutex \in {"undo_stack", "redo_stack"} : Cardinality(Holders(mutex)) <= 1
    /\ \A t \in Threads :
          InCall(t) /\ local[t][1].at \in {"apply", "run"} => local[t][1].holds = {}

\* some thread in a call can take its next step
NoDeadlock ==
    (\E t \in Threads : InCall(t)) => \E t \in Threads : InCall(t) /\ ~Blocked(t)

\* a stack changes, or is measured, only in a step of the thread that holds
\* its guard; the store changes only in a step of a thread without guards
GuardedSteps ==
    /\ undo_stack' # undo_stack =>
          \E t \in Holders("undo_stack") : local'[t] # local[t]
    /\ redo_stack' # redo_stack =>
          \E t \in Holders("redo_stack") : local'[t] # local[t]
    /\ \A t \in Threads :
          InCall(t) /\ local[t][1].at = "len" /\ local'[t] # local[t] =>
             (IF local[t][1].fn = "undo_count" THEN "undo_stack" ELSE "redo_stack")
                 \in local[t][1].holds
    /\ StoreData(Store)' # StoreData(Store) =>
          \E t \in Threads : /\ InCall(t) /\ local[t][1].holds = {}
                             /\ local[t][1].at \in {"apply", "run"}
                             /\ local'[t] # local[t]

\* C29: the undo stack and the redo stack each have their own exclusive
\* lock; apply and undo of a command run with no history lock held by the
\* caller; in every interleaving of execute, undo, redo, undo_count,
\* redo_count and clear calls there is no deadlock and every call returns.
C29_NoDeadlockEveryCallReturns ==
    /\ [](GuardsExclusive /\ NoDeadlock)
    /\ [][GuardedSteps]_vars
    /\ \A t \in Threads : InCall(t) ~> ~InCall(t)

\* execute on thread 1 holds the undo stack and waits for the redo stack,
\* which thread 2 holds in undo, about to push the command it has undone
C29_Witness ==
    /\ InCall(1) /\ local[1][1].fn = "execute" /\ local[1][1].at = "lock_redo"
    /\ local[1][1].holds = {"undo_stack"}
    /\ InCall(2) /\ local[2][1].fn = "undo" /\ local[2][1].at = "push"
    /\ local[2][1].holds = {"redo_stack"}
    /\ Blocked(1)

\* no thread is inside a call
Quiescent == \A t \in Threads : ~InCall(t)

\* C30: once the update_node_position calls made at the same time have all
\* returned, the node R-tree holds one entry for each stored node, at the
\* position the node map has for it, and the way R-tree one entry for each
\* way referencing a moved node, with the bounding box of the positions of
\* its nodes.
C30_OneEntryAtStoredPosition ==
    (pc = "ready" /\ Quiescent) =>
        /\ \A id \in DOMAIN nodes :
              /\ EntriesOf(node_index, id) = 1
              /\ BagIn(PointEntry(id, nodes[id].lon, nodes[id].lat), node_index)
        /\ \A w \in DOMAIN ways :
              LET bbox == compute_way_bbox(Store, ways[w])
              IN  bbox # <<>> => /\ EntriesOf(way_index, w) = 1
                                 /\ BagIn(bbox[1], way_index)

\* two calls moving node 5 have returned and the node R-tree holds two
\* entries for it, one of them where neither the file nor the map has it
C30_Witness ==
    /\ pc = "ready" /\ Quiescent /\ n_ops = 2
    /\ 5 \in DOMAIN nodes /\ nodes[5].lon = 4 /\ nodes[5].lat = 0
    /\ EntriesOf(node_index, 5) = 2
    /\ BagIn(PointEntry(5, 4, 4), node_index)
    /\ BagIn(PointEntry(5, 4, 0), node_index)

\* the elements of a kind in a file
OfKind(file, kind) == {e \in file : e.kind = kind}

\* the store the inserts of a set of elements of the file leave
ElementsStored(done) ==
    /\ DOMAIN nodes = {e.id : e \in OfKind(done, "node")}
    /\ DOMAIN ways = {e.id : e \in OfKind(done, "way")}
    /\ DOMAIN relations = {e.id : e \in OfKind(done, "relation")}
    /\ \A e \in OfKind(done, "node") : nodes[e.id].lon = e.lon /\ nodes[e.id].lat = e.lat
    /\ \A e \in OfKind(done, "way") : ways[e.id].node_refs = e.node_refs

\* C31: load_pbf inserts every element of the file, calls rebuild_indices
\* once, after the last insert, and returns the numbers of nodes, ways and
\* relations inserted; on an error it returns the error, keeps what was
\* inserted and does not rebuild the indices.
C31_LoadCountsAndRebuildsOnce ==
    /\ (node_index # EmptyBag \/ way_index # EmptyBag \/ pc = "ready") =>
          /\ pending = {} /\ ret # <<>> /\ ret[1].result = "Ok"
    /\ local[1] # <<>> =>
          /\ local[1][1].rebuilds = IF pc = "ready" THEN 1 ELSE 0
          /\ ElementsStored(local[1][1].file \ pending)
    /\ (ret # <<>> /\ ret[1].result = "Ok") =>
          LET file == local[1][1].file
              progress == ret[1].progress[1]
          IN  /\ progress.nodes_parsed = Cardinality(OfKind(file, "node"))
              /\ progress.ways_parsed = Cardinality(OfKind(file, "way"))
              /\ progress.relations_parsed = Cardinality(OfKind(file, "relation"))
              /\ ElementsStored(file)
              /\ Store = rebuild_indices(Store)
    /\ (ret # <<>> /\ ret[1].result = "Err") =>
          /\ node_index = EmptyBag /\ way_index = EmptyBag
          /\ pc # "ready"
          /\ index_dirty = (DOMAIN nodes # {} \/ DOMAIN ways # {})

\* a load that failed with a node and a way of the file already inserted and
\* others not: they stay in the maps, the trees are empty and dirty
C31_Witness ==
    /\ ret # <<>> /\ ret[1].result = "Err" /\ pc = "failed"
    /\ pending # {}
    /\ DOMAIN nodes # {} /\ DOMAIN ways # {}
    /\ index_dirty /\ node_index = EmptyBag

(***************************************************************************)
(* C32: insert_node and insert_way against the R-trees, and rebuild_indices *)
(***************************************************************************)
\* what the two range queries return for a box, for every order in which
\* the tree can yield its entries
NodesSeen(s, v) ==
    UNION {SeqRange(query_nodes_in_viewport(s, entries)) :
             entries \in Traversals(InEnvelope(s.node_index, v))}

WayIdsSeen(s, v) ==
    UNION {SeqRange(query_way_ids_in_viewport(entries)) :
             entries \in Traversals(InEnvelope(s.way_index, v))}

Indexed(index, id) == \E e \in DOMAIN index : e.id = id

InsertNodeFrame ==
    \A node \in StoreNodes :
        InsertNode(node) =>
            /\ nodes' = MapPut(nodes, node.id, node)
            /\ index_dirty'
            /\ UNCHANGED <<ways, relations, node_ref_count, node_index,
                           way_index, next_local_id>>

InsertWayFrame ==
    \A way \in StoreWays :
        InsertWay(way) =>
            /\ ways' = MapPut(ways, way.id, way)
            /\ \A n \in DOMAIN node_ref_count' :
                   node_ref_count'[n] =
                       Min((IF n \in DOMAIN node_ref_count THEN node_ref_count[n] ELSE 0)
                             + Occurrences(way.node_refs, n), U16Max)
            /\ DOMAIN node_ref_count' = DOMAIN node_ref_count \cup SeqRange(way.node_refs)
            /\ index_dirty'
            /\ UNCHANGED <<nodes, relations, node_index, way_index, next_local_id>>

\* the inserted entity is returned by no range query
InsertedNotSeen ==
    /\ \A node \in StoreNodes :
           InsertNode(node) => \A v \in Viewports : node \notin NodesSeen(Store', v)
    /\ \A way \in StoreWays :
           InsertWay(way) => \A v \in Viewports : way.id \notin WayIdsSeen(Store', v)

\* the same for an entity whose id has no entry in its tree
InsertedNotSeenUnlessIndexed ==
    /\ \A node \in StoreNodes :
           InsertNode(node) /\ ~Indexed(node_index, node.id)
               => \A v \in Viewports : node \notin NodesSeen(Store', v)
    /\ \A way \in StoreWays :
           InsertWay(way) /\ ~Indexed(way_index, way.id)
               => \A v \in Viewports : way.id \notin WayIdsSeen(Store', v)

RebuildReplaces ==
    RebuildIndices =>
        /\ \A e \in DOMAIN node_index' :
               /\ node_index'[e] = 1
               /\ e.id \in DOMAIN nodes
               /\ e = PointEntry(e.id, nodes[e.id].lon, nodes[e.id].lat)
        /\ \A n \in DOMAIN nodes : EntriesOf(node_index', n) = 1
        /\ \A e \in DOMAIN way_index' : way_index'[e] = 1 /\ e.id \in DOMAIN ways
        /\ \A w \in DOMAIN ways :
               EntriesOf(way_index', w) =
                   IF SeqRange(ways[w].node_refs) \cap DOMAIN nodes # {} THEN 1 ELSE 0
        /\ ~index_dirty'
        /\ UNCHANGED <<nodes, ways, relations, node_ref_count, next_local_id>>
        /\ \A v \in Viewports :
               /\ NodesSeen(Store', v) =
                      {nodes[n] : n \in {x \in DOMAIN nodes :
                          /\ v.min_lon <= nodes[x].lon /\ nodes[x].lon <= v.max_lon
                          /\ v.min_lat <= nodes[x].lat /\ nodes[x].lat <= v.max_lat}}
               /\ WayIdsSeen(Store', v) = {e.id : e \in DOMAIN InEnvelope(way_index', v)}

\* C32 as stated: insert_node and insert_way change only the entity maps,
\* the ref-counts (ways) and the dirty flag and leave both R-trees as they
\* were, so that no range query returns the inserted entity; rebuild_indices
\* leaves one entry per node and one per way with a present node, whatever
\* the trees held, and the range queries return that content.
C32_InsertedUnseenUntilRebuild ==
    [][InsertNodeFrame /\ InsertWayFrame /\ InsertedNotSeen /\ RebuildReplaces]_vars

\* C32, amended: the same, the inserted entity being returned by no range
\* query when its id had no entry in the tree before the insert (an insert
\* over an id that is indexed is returned through the entry it already has).
C32_InsertsLeaveTreesRebuildReplaces ==
    [][InsertNodeFrame /\ InsertWayFrame /\ InsertedNotSeenUnlessIndexed
         /\ RebuildReplaces]_vars

\* rebuild_indices has returned on a store holding a node and two ways put
\* there by insert_node and insert_way: way 10 has the node, way 11 has no
\* present node
C32_Witness ==
    /\ last.op = "rebuild_indices"
    /\ DOMAIN nodes = {5}
    /\ DOMAIN ways = {10, 11}
    /\ EntriesOf(node_index, 5) = 1
    /\ EntriesOf(way_index, 10) = 1
    /\ EntriesOf(way_index, 11) = 0

(***************************************************************************)
(* C33: the ref-count of a node as a saturating 16-bit counter             *)
(***************************************************************************)
CountIn(rc, n) == IF n \in DOMAIN rc THEN rc[n] ELSE 0

\* the method called by the step
Increments == last'.op \in {"insert_way", "add_way_with_index", "insert_node_to_way"}
Decrements == last'.op \in {"remove_way_with_index", "remove_node_from_way"}

RefCountStep ==
    \A n \in DOMAIN node_ref_count \cup DOMAIN node_ref_count' :
        LET before == CountIn(node_ref_count, n)
            after == CountIn(node_ref_count', n)
        IN  /\ Increments => after >= before /\ (before = U16Max => after = U16Max)
            /\ Decrements => after <= before /\ after >= 0

Reinserted == last.op = "insert_node_to_way" /\ ret # <<>> /\ ret[1].node_refs # <<>>

\* C34: remove_node_from_way(w, n) followed by insert_node_to_way(w, n,
\* indices) with the returned indices leaves the node_refs of the way as
\* they were, same length and same order, and the ref-count of n as it was,
\* which is then the number of occurrences present; also when n occurs more
\* than once in the way.
C34_InsertRestoresRemoved ==
    Reinserted =>
        LET r == ret[1]
        IN  /\ ways[r.way_id].node_refs = r.node_refs[1]
            /\ CountIn(node_ref_count, r.node_id)
                   = (IF r.ref_count = <<>> THEN 0 ELSE r.ref_count[1])

\* node 5 closed way 10 over 5, 6, 7, 5, the only way stored: after the two
\* calls the way is 5, 6, 7 and the ref-count of node 5 is 2
C34_Witness ==
    /\ Reinserted
    /\ ret[1].way_id = 10 /\ ret[1].node_id = 5
    /\ ret[1].node_refs = <<(<<5, 6, 7, 5>>)>>
    /\ ret[1].indices = <<0, 3>>
    /\ DOMAIN ways = {10}
    /\ ways[10].node_refs = <<5, 6, 7>>
    /\ node_ref_count[5] = 2

(***************************************************************************)
(* C35: remove_node_from_way                                               *)
(***************************************************************************)
Ascending(seq) == \A i, j \in 1..Len(seq) : i < j => seq[i] < seq[j]

\* the entries of the way R-tree for a way are the one compute_way_bbox
\* gives for it, or none when it gives none
WayEntryRecomputed(s, way_id) ==
    LET bbox == compute_way_bbox(s, s.ways[way_id])
    IN  /\ EntriesOf(s.way_index, way_id) = Len(bbox)
        /\ bbox # <<>> => BagIn(bbox[1], s.way_index)

RemoveNodeFromWayContract(way_id, node_id) ==
    LET indices == ret'[1].indices
        found == way_id \in DOMAIN ways
                 /\ node_id \in SeqRange(ways[way_id].node_refs)
    IN  IF found
        THEN LET refs == ways[way_id].node_refs
             IN  /\ ways' = [ways EXCEPT ![way_id].node_refs = Without(refs, node_id)]
                 /\ Ascending(indices)
                 /\ {i + 1 : i \in SeqRange(indices)}
                        = {p \in 1..Len(refs) : refs[p] = node_id}
                 /\ node_ref_count' =
                        [node_ref_count EXCEPT ![node_id] = @ - Len(indices)]
                 /\ WayEntryRecomputed(Store', way_id)
                 /\ \A w \in DOMAIN ways \ {way_id} :
                        EntriesOf(way_index', w) = EntriesOf(way_index, w)
                 /\ UNCHANGED <<nodes, relations, node_index, index_dirty, next_local_id>>
        ELSE /\ indices = <<>>
             /\ UNCHANGED <<nodes, ways, relations, node_ref_count, node_index,
                            way_index, index_dirty, next_local_id>>

\* C35: remove_node_from_way(w, n) takes every occurrence of n out of the
\* node_refs of w and keeps the other refs in their order, returns the
\* positions n had, ascending, lowers the ref-count of n by their number and
\* leaves for w the R-tree entry computed from the refs that remain; when
\* the way is not stored or does not hold n it returns no position and
\* changes nothing.
C35_RemoveNodeFromWayContract ==
    [][\A way_id \in {10, 11, 12}, node_id \in {5, 6, 8} :
          RemoveNodeFromWay(way_id, node_id)
              => RemoveNodeFromWayContract(way_id, node_id)]_vars

\* node 5 has been taken out of a way that held it at two positions and
\* that keeps other nodes
C35_Witness ==
    /\ last.op = "remove_node_from_way"
    /\ ret # <<>> /\ ret[1].node_id = 5 /\ ret[1].indices = <<0, 3>>
    /\ ways[10].node_refs = <<6, 7>>
    /\ 6 \in DOMAIN nodes
    /\ EntriesOf(way_index, 10) = 1

(***************************************************************************)
(* C36: undo and redo issued one at a time                                 *)
(***************************************************************************)
HistoryCount == undo_count(History) + redo_count(History)

UndoMovesCommand ==
    (n_ops' = n_ops + 1 /\ last'.op = "undo" /\ undo_stack # <<>>) =>
        /\ last'.success
        /\ undo_stack' = Pop(undo_stack)
        /\ redo_stack' = Append(redo_stack, Top(undo_stack))
        /\ HistoryCount' = HistoryCount

RedoMovesCommand ==
    (n_ops' = n_ops + 1 /\ last'.op = "redo" /\ redo_stack # <<>>) =>
        /\ last'.success
        /\ redo_stack' = Pop(redo_stack)
        /\ undo_stack' = Append(undo_stack, Top(redo_stack))
        /\ HistoryCount' = HistoryCount

\* C36: with the edit commands, undo and redo called one at a time and the
\* store changed by nothing else, an undo on a non-empty undo stack and a
\* redo on a non-empty redo stack succeed: the command moves to the other
\* stack, none is dropped, and undo_count + redo_count is as before.
C36_UndoRedoNeverDrop == [][UndoMovesCommand /\ RedoMovesCommand]_vars

\* a redo has succeeded: a node deletion, undone and redone, is back on
\* the undo stack above an earlier command
C36_Witness ==
    /\ last.op = "redo" /\ last.success
    /\ Len(undo_stack) = 2
    /\ Top(undo_stack).kind = "DeleteNode"
    /\ redo_stack = <<>>

(***************************************************************************)
(* C37: the redo stack after a successful execute, calls made at once      *)
(***************************************************************************)
\* an execute has returned success and no undo has started since
ExecutedLast == ret = <<"execute">>

\* C37: under every interleaving of the calls, whenever an execute has
\* returned success and no later undo has started the redo stack is empty;
\* also when an undo running on another thread popped its command before
\* the execute and pushes it to the redo stack afterwards.
C37_ExecuteClearsRedo == ExecutedLast => redo_stack = <<>>

\* no call is running, the last undo started before an execute that has
\* returned success, and the redo stack holds the command that undo popped
C37_Witness ==
    /\ ExecutedLast
    /\ \A t \in Threads : ~InCall(t)
    /\ Len(redo_stack) = 1
    /\ Len(undo_stack) = 1

(***************************************************************************)
(* C38: the ways of a viewport response                                    *)
(***************************************************************************)
\* the way ids of the way range query, cut to max_ways
WaysAfterTruncation ==
    Truncate(query_way_ids_in_viewport(call[1].way_entries), call[1].max_ways)

\* the way records the encoder writes for the way_ids of the result
WayRecords == CollectWayData(Store, ret[1].result.way_ids)

WayRecordsOf(w) == Cardinality({i \in 1..Len(WayRecords) : WayRecords[i].way_id = w})

PolygonRecordsOf(w) ==
    Cardinality({i \in 1..Len(ret[1].result.polygons) :
                    ret[1].result.polygons[i].way_id = w})

\* C38: every way id the way range query returned, after the cut to
\* max_ways, that is in the store with two of its referenced nodes present
\* has exactly one record in the response: a way record and no polygon
\* record when its is_area is false, a polygon record and no way record
\* when it is true.
C38_EachWayOnce ==
    Queried =>
        \A w \in SeqRange(WaysAfterTruncation) :
            Drawable(w) =>
                IF ways[w].is_area
                THEN PolygonRecordsOf(w) = 1 /\ WayRecordsOf(w) = 0
                ELSE WayRecordsOf(w) = 1 /\ PolygonRecordsOf(w) = 0

\* the range query returned a building that delete_node has left with two
\* nodes and is_area still true: the response has no record for it
C38_Witness ==
    /\ Queried
    /\ 10 \in SeqRange(WaysAfterTruncation)
    /\ Drawable(10)
    /\ ways[10].is_area
    /\ Len(ways[10].node_refs) = 2
    /\ PolygonRecordsOf(10) = 0
    /\ WayRecordsOf(10) = 0

(***************************************************************************)
(* C39: is_area_way and the order of the tags                              *)
(***************************************************************************)
\* the lists holding the tags of a list in another order
Rearranged(tags) ==
    {[i \in 1..Len(tags) |-> tags[p[i]]] : p \in Orderings(1..Len(tags))}

\* C39: for closed node_refs, is_area_way gives the same answer for every
\* two tag lists that hold the same tags in different orders.
C39_AreaWhateverTagOrder ==
    (ret # <<>> /\ call[1].fn = "is_area_way"
       /\ Len(call[1].node_refs) >= 4
       /\ call[1].node_refs[1] = call[1].node_refs[Len(call[1].node_refs)]) =>
        \A other \in Rearranged(call[1].tags) :
            is_area_way(other, call[1].node_refs) = ret[1].is_area

\* a closed way tagged building=yes, area=no in this order is an area; with
\* the two tags the other way round it is none
C39_Witness ==
    /\ ret # <<>> /\ call[1].fn = "is_area_way"
    /\ call[1].tags = <<<<"building", "yes">>, <<"area", "no">>>>
    /\ call[1].node_refs = <<1, 2, 3, 1>>
    /\ ret[1].is_area
    /\ ~is_area_way(<<<<"area", "no">>, <<"building", "yes">>>>, <<1, 2, 3, 1>>)

(***************************************************************************)
(* C40: the walks of stitch_ways_to_rings                                  *)
(***************************************************************************)
\* the ids of the ways RoleSegments takes its segments from, in that order
RoleWays(relation_id, roles) ==
    LET ms == SelectSeq(relations[relation_id].members,
                        LAMBDA m : /\ m.member_type = "Way"
                                   /\ m.role \in roles
                                   /\ m.ref_id \in DOMAIN ways
                                   /\ Len(ways[m.ref_id].node_refs) >= 2)
    IN  [i \in 1..Len(ms) |-> ms[i].ref_id]

\* the walks of the outer loop from start_idx on: the ring each walk ended
\* with and the segments it marked used
RECURSIVE WalksFrom(_, _, _)
WalksFrom(segments, start_idx, used) ==
    IF start_idx > Len(segments) THEN <<>>
    ELSE IF start_idx \in used THEN WalksFrom(segments, start_idx + 1, used)
    ELSE LET w == WalkLoop(segments, used, <<>>, start_idx, TRUE)
         IN  <<[ring |-> w.ring, took |-> w.used \ used]>>
             \o WalksFrom(segments, start_idx + 1, w.used)

WalksOf(relation_id, roles) == WalksFrom(RoleSegments(relation_id, roles), 1, {})

\* the rings of the walks that closed, those of fewer than four present
\* nodes left out
ReturnedRings(walks) ==
    Flatten([k \in 1..Len(walks) |->
                IF RingClosed(walks[k].ring) /\ Len(Coords(Store, walks[k].ring)) >= 4
                THEN <<Coords(Store, walks[k].ring)>> ELSE <<>>])

\* every walk took a segment, no segment was taken by two walks, and the
\* polygon holds the rings of the walks that closed and no other
EachEntryInOneWalk(relation_id, roles) ==
    LET walks == WalksOf(relation_id, roles)
        segments == RoleSegments(relation_id, roles)
    IN  /\ Len(walks) <= Len(segments)
        /\ \A k \in 1..Len(walks) :
              /\ walks[k].took # {}
              /\ walks[k].took \subseteq 1..Len(segments)
        /\ \A j, k \in 1..Len(walks) : j # k => walks[j].took \cap walks[k].took = {}

RingsAreClosedWalks(relation_id) ==
    LET rings == ReturnedRings(WalksOf(relation_id, {"outer", ""}))
                 \o ReturnedRings(WalksOf(relation_id, {"inner"}))
    IN  ret[1].polygon # <<>> => ret[1].polygon[1].rings = rings

\* a way some entry of which was taken by two walks
EachWayInOneWalk(relation_id, roles) ==
    LET walks == WalksOf(relation_id, roles)
        way_ids == RoleWays(relation_id, roles)
    IN  \A w \in SeqRange(way_ids) :
            Cardinality({k \in 1..Len(walks) :
                            \E i \in walks[k].took : way_ids[i] = w}) <= 1

Stitched ==
    /\ Assembled
    /\ call[1].relation_id \in DOMAIN relations
    /\ IsMultipolygon(call[1].relation_id)

====
